---- MODULE Spec2Model ----
(***************************************************************************)
(* A model of the chust chess engine: board, bitboard cache, move          *)
(* generation, the legality filter, make_move / unmake_move, perft and     *)
(* the alpha-beta search.                                                  *)
(*                                                                         *)
(* A Position is its board index y * 8 + x (0..63); Option<Position>::None *)
(* is NoPos.  A Bitboard (u64 bit set) is the set of the indices of its    *)
(* set bits.  A Vec is a sequence.                                         *)
(***************************************************************************)
EXTENDS Integers, Sequences, FiniteSets, TLC

VARIABLES
    current_turn,         \* Game.current_turn
    board,                \* Game.board
    move_stack,           \* Game.move_stack
    bitboards,            \* Game.bitboards
    white_castle_rights,  \* Game.white_castle_rights
    black_castle_rights,  \* Game.black_castle_rights
    en_passent_field,     \* Game.en_passent_field
    last_result,          \* what the last call on the Game returned
    last_op,              \* the last operation called on the Game
    origin,               \* the record the Game was constructed from
    fen_given,            \* the record last handed to parse_game
    pc,                   \* where the running perft or search call stands
    frames,               \* the call stack of the running perft or search
    ret,                  \* the value the last finished call returned
    depth,                \* PerfTest.depth
    node_count,           \* PerfTestResults.node_count
    root,                 \* the Game as it was handed to the running call
    search,               \* AlphaBetaSearch: best_moves and the counters
    last_arg,             \* the argument of the last call that takes no Game
    play_game,            \* PlayGame<State>: the state and the players attached
    running_game          \* RunningGame: the bot's colour and the channel tx

gameVars == <<current_turn, board, move_stack, bitboards,
              white_castle_rights, black_castle_rights, en_passent_field>>

callVars ==
    <<pc, frames, ret, depth, node_count, root, search, last_arg, play_game, running_game>>

vars == <<gameVars, last_result, last_op, origin, fen_given, callVars>>

----------------------------------------------------------------------------
(* color.rs *)

Colors == {"White", "Black"}

\* pawn_rank ignoring the color
pawn_rank_black_only(color) == 6

opposite(c) == IF c = "White" THEN "Black" ELSE "White"

pawn_rank(c) == IF c = "White" THEN 1 ELSE 6

root_rank(c) == IF c = "White" THEN 0 ELSE 7

board_direction(c) == IF c = "White" THEN 1 ELSE -1

----------------------------------------------------------------------------
(* position.rs *)

NoPos == -1

Squares == 0 .. 63

file(p) == p % 8

rank(p) == p \div 8

new_unchecked(x, y) == y * 8 + x

offset(p, dx, dy) ==
    LET new_x == file(p) + dx
        new_y == rank(p) + dy
    IN  IF new_x >= 0 /\ new_x < 8 /\ new_y >= 0 /\ new_y < 8
        THEN new_y * 8 + new_x
        ELSE NoPos

Abs(n) == IF n < 0 THEN -n ELSE n

\* dx / dx.abs(); the callers below only pass squares on different files
rank_direction(p, other) ==
    LET dx == file(other) - file(p)
    IN  IF dx > 0 THEN 1 ELSE IF dx < 0 THEN -1 ELSE 0

----------------------------------------------------------------------------
(* piece.rs, piece_type.rs, moves.rs *)

PieceTypes == {"Pawn", "Knight", "Bishop", "Rook", "Queen", "King"}

NoPiece == [kind |-> "None", color |-> "None"]

Piece(kind, color) == [kind |-> kind, color |-> color]

Quiet == [tag |-> "Quiet", promotion |-> "None", captured |-> "None", pos |-> NoPos]

Capture(kind) == [tag |-> "Capture", promotion |-> "None", captured |-> kind, pos |-> NoPos]

EnPassantCapture ==
    [tag |-> "EnPassantCapture", promotion |-> "None", captured |-> "None", pos |-> NoPos]

Castle == [tag |-> "Castle", promotion |-> "None", captured |-> "None", pos |-> NoPos]

\* a double pawn push that records no square
DoublePawnPush_unrecorded(p) ==
    [tag |-> "DoublePawnPush", promotion |-> "None", captured |-> "None", pos |-> NoPos]

DoublePawnPush(p) ==
    [tag |-> "DoublePawnPush", promotion |-> "None", captured |-> "None", pos |-> p]

PromotionQuite(pt) ==
    [tag |-> "PromotionQuite", promotion |-> pt, captured |-> "None", pos |-> NoPos]

PromotionCapture(pt, kind) ==
    [tag |-> "PromotionCapture", promotion |-> pt, captured |-> kind, pos |-> NoPos]

Move(from, to, move_type) == [from |-> from, to |-> to, move_type |-> move_type]

----------------------------------------------------------------------------
(* board.rs *)

BoardDefault == [p \in Squares |-> NoPiece]

place_piece(b, piece, p) == [b EXCEPT ![p] = piece]

remove_piece(b, p) == [b EXCEPT ![p] = NoPiece]

BoardMakeMove(b, from, to) == [b EXCEPT ![to] = b[from], ![from] = NoPiece]

----------------------------------------------------------------------------
(* sequence helpers *)

RECURSIVE Flatten(_)
Flatten(seqs) ==
    IF seqs = <<>> THEN <<>> ELSE Head(seqs) \o Flatten(Tail(seqs))

RECURSIVE SetToSortedSeq(_)
SetToSortedSeq(S) ==
    IF S = {} THEN <<>>
    ELSE LET m == CHOOSE x \in S : \A y \in S : x <= y
         IN  <<m>> \o SetToSortedSeq(S \ {m})

Range(s) == {s[i] : i \in 1 .. Len(s)}

LowestOf(S) == CHOOSE p \in S : \A q \in S : p <= q

\* Bitboard::iter(): the set bits in increasing index order
BitboardIter(bb) == SetToSortedSeq(bb)

----------------------------------------------------------------------------
(* move_generation.rs: pseudo-legal and attacking moves *)

pawn_possible_attacking_moves(g, position, color) ==
    LET dir == board_direction(color)
        l == offset(position, -1, dir)
        r == offset(position, 1, dir)
    IN  (IF l # NoPos THEN <<Move(position, l, Quiet)>> ELSE <<>>)
        \o (IF r # NoPos THEN <<Move(position, r, Quiet)>> ELSE <<>>)

\* the promotion pieces with the queen only
Promotions_queen_only == <<"Queen", "Queen", "Queen", "Queen">>

Promotions == <<"Queen", "Rook", "Knight", "Bishop">>

pawn_pseudo_legal_moves(g, position, color) ==
    LET b == g.board
        direction == board_direction(color)
        opposite_root == root_rank(opposite(color))
        one == offset(position, 0, direction)
        two == offset(position, 0, 2 * direction)
        single ==
            IF one # NoPos /\ b[one] = NoPiece
            THEN (IF rank(one) = opposite_root
                  THEN [i \in 1 .. 4 |-> Move(position, one, PromotionQuite(Promotions[i]))]
                  ELSE <<Move(position, one, Quiet)>>)
                 \o (IF rank(position) = pawn_rank(color) /\ two # NoPos /\ b[two] = NoPiece
                     THEN <<Move(position, two, DoublePawnPush(one))>>
                     ELSE <<>>)
            ELSE <<>>
        att == pawn_possible_attacking_moves(g, position, color)
        capOf(mov) ==
            LET piece == b[mov.to]
            IN  IF piece # NoPiece /\ piece.color # color
                THEN IF rank(mov.to) = opposite_root
                     THEN [i \in 1 .. 4 |->
                             Move(position, mov.to, PromotionCapture(Promotions[i], piece.kind))]
                     ELSE <<Move(position, mov.to, Capture(piece.kind))>>
                ELSE <<>>
        captures == Flatten([i \in 1 .. Len(att) |-> capOf(att[i])])
        ep == g.en_passent_field
        en_passent ==
            IF ep # NoPos
            THEN (IF offset(position, -1, direction) = ep
                  THEN <<Move(position, ep, EnPassantCapture)>> ELSE <<>>)
                 \o (IF offset(position, 1, direction) = ep
                     THEN <<Move(position, ep, EnPassantCapture)>> ELSE <<>>)
            ELSE <<>>
    IN  single \o captures \o en_passent

\* one step of the knight and king loops
StepMove(b, position, color, friendly_attacks, dx, dy) ==
    LET new_pos == offset(position, dx, dy)
    IN  IF new_pos = NoPos THEN <<>>
        ELSE IF b[new_pos] # NoPiece
             THEN IF b[new_pos].color # color \/ friendly_attacks
                  THEN <<Move(position, new_pos, Capture(b[new_pos].kind))>>
                  ELSE <<>>
             ELSE <<Move(position, new_pos, Quiet)>>

KnightOffsets ==
    << <<-2, -1>>, <<-2, 1>>, <<-1, -2>>, <<-1, 2>>,
       <<1, -2>>, <<1, 2>>, <<2, -1>>, <<2, 1>> >>

knight_pseudo_legal_moves(g, position, color, friendly_attacks) ==
    Flatten([i \in 1 .. 8 |->
        StepMove(g.board, position, color, friendly_attacks,
                 KnightOffsets[i][1], KnightOffsets[i][2])])

\* the while-let loop of the bishop and rook generators, from pos on
RECURSIVE RayMoves(_, _, _, _, _, _, _)
RayMoves(b, position, pos, dx, dy, color, friendly_attacks) ==
    IF pos = NoPos THEN <<>>
    ELSE LET piece == b[pos]
             next == RayMoves(b, position, offset(pos, dx, dy), dx, dy, color, friendly_attacks)
         IN  IF piece # NoPiece
             THEN LET cap == IF piece.color # color \/ friendly_attacks
                             THEN <<Move(position, pos, Capture(piece.kind))>>
                             ELSE <<>>
                  IN  IF ~friendly_attacks \/ (piece.kind # "King" \/ piece.color = color)
                      THEN cap
                      ELSE cap \o <<Move(position, pos, Quiet)>> \o next
             ELSE <<Move(position, pos, Quiet)>> \o next

Ray(b, position, dx, dy, color, fa) ==
    RayMoves(b, position, offset(position, dx, dy), dx, dy, color, fa)

bishop_pseudo_legal_moves(g, position, color, fa) ==
    Ray(g.board, position, -1, -1, color, fa) \o Ray(g.board, position, -1, 1, color, fa)
    \o Ray(g.board, position, 1, -1, color, fa) \o Ray(g.board, position, 1, 1, color, fa)

rook_pseudo_legal_moves(g, position, color, fa) ==
    Ray(g.board, position, -1, 0, color, fa) \o Ray(g.board, position, 1, 0, color, fa)
    \o Ray(g.board, position, 0, -1, color, fa) \o Ray(g.board, position, 0, 1, color, fa)

queen_pseudo_legal_moves(g, position, color, fa) ==
    bishop_pseudo_legal_moves(g, position, color, fa)
    \o rook_pseudo_legal_moves(g, position, color, fa)

KingOffsets ==
    << <<-1, -1>>, <<-1, 0>>, <<-1, 1>>, <<0, -1>>,
       <<0, 1>>, <<1, -1>>, <<1, 0>>, <<1, 1>> >>

king_pseudo_legal_moves(g, position, color, frindly_attacks) ==
    LET b == g.board
        rr == root_rank(color)
        sq(x) == new_unchecked(x, rr)
        steps == Flatten([i \in 1 .. 8 |->
                    StepMove(b, position, color, frindly_attacks,
                             KingOffsets[i][1], KingOffsets[i][2])])
        king_side ==
            IF b[sq(5)] = NoPiece /\ b[sq(6)] = NoPiece
               /\ b[sq(7)] = Piece("Rook", color)
            THEN <<Move(position, sq(6), Castle)>> ELSE <<>>
        queen_side ==
            IF b[sq(1)] = NoPiece /\ b[sq(2)] = NoPiece /\ b[sq(3)] = NoPiece
               /\ b[sq(0)] = Piece("Rook", color)
            THEN <<Move(position, sq(2), Castle)>> ELSE <<>>
    IN  steps \o (IF rank(position) = rr /\ file(position) = 4
                  THEN king_side \o queen_side ELSE <<>>)

PieceMoves(g, position, piece, fa) ==
    CASE piece.kind = "Knight" -> knight_pseudo_legal_moves(g, position, piece.color, fa)
      [] piece.kind = "Bishop" -> bishop_pseudo_legal_moves(g, position, piece.color, fa)
      [] piece.kind = "Rook" -> rook_pseudo_legal_moves(g, position, piece.color, fa)
      [] piece.kind = "Queen" -> queen_pseudo_legal_moves(g, position, piece.color, fa)
      [] piece.kind = "King" -> king_pseudo_legal_moves(g, position, piece.color, fa)

\* possible_attacking_moves with the friendly_attacks flag off
possible_attacking_moves_plain(g, position) ==
    IF g.board[position] = NoPiece THEN <<>>
    ELSE IF g.board[position].kind = "Pawn"
         THEN pawn_possible_attacking_moves(g, position, g.board[position].color)
         ELSE PieceMoves(g, position, g.board[position], FALSE)

possible_attacking_moves(g, position) ==
    LET piece == g.board[position]
    IN  IF piece = NoPiece THEN <<>>
        ELSE IF piece.kind = "Pawn"
             THEN pawn_possible_attacking_moves(g, position, piece.color)
             ELSE PieceMoves(g, position, piece, TRUE)

pseudo_legal_moves(g, position) ==
    LET piece == g.board[position]
    IN  IF piece = NoPiece THEN <<>>
        ELSE IF piece.kind = "Pawn"
             THEN pawn_pseudo_legal_moves(g, position, piece.color)
             ELSE PieceMoves(g, position, piece, FALSE)

----------------------------------------------------------------------------
(* bitboards.rs: the derived cache *)

GameBitBoardsDefault ==
    [white_pawns |-> {}, white_knights |-> {}, white_bishops |-> {},
     white_rooks |-> {}, white_queens |-> {},
     black_pawns |-> {}, black_knights |-> {}, black_bishops |-> {},
     black_rooks |-> {}, black_queens |-> {},
     black_pieces |-> {}, white_pieces |-> {},
     white_king |-> 0, black_king |-> 0,
     white_attacks |-> {}, black_attacks |-> {},
     white_pinned |-> <<>>, black_pinned |-> <<>>,
     white_blockable_check |-> <<>>, black_blockable_check |-> <<>>]

Of(b, kind, color) == {p \in Squares : b[p] = Piece(kind, color)}

\* the king square is the last king met in index order, (0, 0) without a king
KingSquare(b, color) ==
    LET ks == Of(b, "King", color)
    IN  IF ks = {} THEN 0 ELSE CHOOSE p \in ks : \A q \in ks : q <= p

generate_pieces(this, g) ==
    LET b == g.board
    IN  [this EXCEPT
            !.white_pawns = Of(b, "Pawn", "White"),
            !.white_knights = Of(b, "Knight", "White"),
            !.white_bishops = Of(b, "Bishop", "White"),
            !.white_rooks = Of(b, "Rook", "White"),
            !.white_queens = Of(b, "Queen", "White"),
            !.black_pawns = Of(b, "Pawn", "Black"),
            !.black_knights = Of(b, "Knight", "Black"),
            !.black_bishops = Of(b, "Bishop", "Black"),
            !.black_rooks = Of(b, "Rook", "Black"),
            !.black_queens = Of(b, "Queen", "Black"),
            !.white_king = KingSquare(b, "White"),
            !.black_king = KingSquare(b, "Black"),
            !.white_pieces = {p \in Squares : b[p].color = "White"},
            !.black_pieces = {p \in Squares : b[p].color = "Black"}]

pawns(bb, color) == IF color = "White" THEN bb.white_pawns ELSE bb.black_pawns

knights(bb, color) == IF color = "White" THEN bb.white_knights ELSE bb.black_knights

bishops(bb, color) == IF color = "White" THEN bb.white_bishops ELSE bb.black_bishops

rooks(bb, color) == IF color = "White" THEN bb.white_rooks ELSE bb.black_rooks

queens(bb, color) == IF color = "White" THEN bb.white_queens ELSE bb.black_queens

king(bb, color) == IF color = "White" THEN bb.white_king ELSE bb.black_king

pieces(bb, color) == IF color = "White" THEN bb.white_pieces ELSE bb.black_pieces

attacks(bb, color) == IF color = "White" THEN bb.white_attacks ELSE bb.black_attacks

pinned(bb, color) == IF color = "White" THEN bb.white_pinned ELSE bb.black_pinned

blockable_checks(bb, color) ==
    IF color = "White" THEN bb.white_blockable_check ELSE bb.black_blockable_check

\* the squares attacked by the pieces standing on the squares of from_set
AttackSet(g, from_set) ==
    UNION {{m.to : m \in Range(possible_attacking_moves(g, p))} : p \in from_set}

Directions ==
    << <<1, 0, {"Rook", "Queen"}>>, <<1, 1, {"Bishop", "Queen"}>>,
       <<0, 1, {"Rook", "Queen"}>>, <<-1, 1, {"Bishop", "Queen"}>>,
       <<-1, 0, {"Rook", "Queen"}>>, <<-1, -1, {"Bishop", "Queen"}>>,
       <<0, -1, {"Rook", "Queen"}>>, <<1, -1, {"Bishop", "Queen"}>> >>

\* RayScan without the break after two friendly pieces
RECURSIVE RayScan_no_break(_, _, _, _, _, _)
RayScan_no_break(b, color, direction, position, count, mask) ==
    LET next == offset(position, direction[1], direction[2])
    IN  IF next = NoPos THEN <<"none", {}>>
        ELSE LET m2 == mask \cup {next}
                 piece == b[next]
             IN  IF piece # NoPiece
                 THEN IF piece.color # color
                      THEN IF piece.kind \in direction[3]
                           THEN IF count = 0 THEN <<"check", m2>>
                                ELSE IF count = 1 THEN <<"pin", m2>>
                                ELSE <<"unreachable", m2>>
                           ELSE <<"none", {}>>
                      ELSE RayScan_no_break(b, color, direction, next, count + 1, m2)
                 ELSE RayScan_no_break(b, color, direction, next, count, m2)

\* The loop body of the ray scan from the king: position is the square
\* reached last, count the friendly pieces crossed, mask the squares so far.
\* The result is <<kind, mask>>, kind one of "check", "pin", "none",
\* or "unreachable" for the unreachable!() branch.
RECURSIVE RayScan(_, _, _, _, _, _)
RayScan(b, color, direction, position, count, mask) ==
    LET next == offset(position, direction[1], direction[2])
    IN  IF next = NoPos THEN <<"none", {}>>
        ELSE LET m2 == mask \cup {next}
                 piece == b[next]
             IN  IF piece # NoPiece
                 THEN IF piece.color # color
                      THEN IF piece.kind \in direction[3]
                           THEN IF count = 0 THEN <<"check", m2>>
                                ELSE IF count = 1 THEN <<"pin", m2>>
                                ELSE <<"unreachable", m2>>
                           ELSE <<"none", {}>>
                      ELSE IF count + 1 >= 2 THEN <<"none", {}>>
                           ELSE RayScan(b, color, direction, next, count + 1, m2)
                 ELSE IF count >= 2 THEN <<"none", {}>>
                      ELSE RayScan(b, color, direction, next, count, m2)

SelectKind(results, kind) ==
    LET F[i \in 0 .. Len(results)] ==
            IF i = 0 THEN <<>>
            ELSE IF results[i][1] = kind THEN Append(F[i - 1], results[i][2])
                 ELSE F[i - 1]
    IN  F[Len(results)]

\* the one-square masks of the attacking moves hits, in order
FromMasks(hits) == [i \in 1 .. Len(hits) |-> {hits[i].from}]

\* the attacking moves of the pieces on from_seq that end on king_position
HitsOn(g, from_seq, king_position) ==
    Flatten([i \in 1 .. Len(from_seq) |->
        SelectSeq(possible_attacking_moves(g, from_seq[i]),
                  LAMBDA a : a.to = king_position)])

\* StepChecks that looks at the knights and leaves the pawns out
StepChecks_knights_only(g, this, color, king_position) ==
    FromMasks(HitsOn(g, BitboardIter(knights(this, opposite(color))), king_position))

\* the knight and pawn checks, in the order knights then pawns, by square
StepChecks(g, this, color, king_position) ==
    FromMasks(HitsOn(g, BitboardIter(knights(this, opposite(color)))
                        \o BitboardIter(pawns(this, opposite(color))),
                     king_position))

\* the eight ray scans from the king, in the order of Directions
RayResults(g, color, king_position) ==
    [i \in 1 .. 8 |-> RayScan(g.board, color, Directions[i], king_position, 0, {})]

\* the assignments to the pinned and blockable_check fields of color
SetPinsAndChecks(this, color, pins, checks) ==
    IF color = "White"
    THEN [this EXCEPT !.white_pinned = pins, !.white_blockable_check = checks]
    ELSE [this EXCEPT !.black_pinned = pins, !.black_blockable_check = checks]

generate_king_pins_and_checks(this, g, color) ==
    SetPinsAndChecks(this, color,
        SelectKind(RayResults(g, color, king(this, color)), "pin"),
        SelectKind(RayResults(g, color, king(this, color)), "check")
            \o StepChecks(g, this, color, king(this, color)))

\* the white_attacks and black_attacks fields, from the piece sets of this
generate_attacks(this, g) ==
    [this EXCEPT !.white_attacks = AttackSet(g, this.white_pieces),
                 !.black_attacks = AttackSet(g, this.black_pieces)]

GameBitBoardsNew(g) ==
    generate_king_pins_and_checks(
        generate_king_pins_and_checks(
            generate_attacks(generate_pieces(GameBitBoardsDefault, g), g),
            g, "White"),
        g, "Black")

----------------------------------------------------------------------------
(* game.rs: CastleRights *)

CastleRightsValues == {"None", "KingSide", "QueenSide", "Both"}

remove_king_side(r) ==
    IF r = "KingSide" THEN "None" ELSE IF r = "Both" THEN "QueenSide" ELSE r

\* remove_queen_side that flips the queen-side right instead of clearing it
remove_queen_side_flip(r) ==
    CASE r = "QueenSide" -> "None"
      [] r = "Both" -> "KingSide"
      [] r = "KingSide" -> "Both"
      [] r = "None" -> "QueenSide"

remove_queen_side(r) ==
    IF r = "QueenSide" THEN "None" ELSE IF r = "Both" THEN "KingSide" ELSE r

remove_both(r) == "None"

\* queen_side that forgets the value Both
queen_side_exact(r) == r = "QueenSide"

queen_side(r) == r \in {"QueenSide", "Both"}

king_side(r) == r \in {"KingSide", "Both"}

castle_rights(g, color) ==
    IF color = "White" THEN g.white_castle_rights ELSE g.black_castle_rights

----------------------------------------------------------------------------
(* move_generation.rs: the legality filter *)

\* the first mask of a Vec<Bitboard> that contains p, {} when there is none
FirstContaining(masks, p) ==
    LET idx == {i \in 1 .. Len(masks) : p \in masks[i]}
    IN  IF idx = {} THEN {} ELSE masks[CHOOSE i \in idx : \A j \in idx : i <= j]

\* The same-rank scan of the en-passant special case: the pawns met walking
\* from the rook towards the king (the walk stops once three are found).
RECURSIVE FoundPawns(_, _, _, _, _)
FoundPawns(b, cur_pos, king_pos, rook_dir, found_pawns) ==
    IF cur_pos = king_pos \/ found_pawns > 2 THEN found_pawns
    ELSE FoundPawns(b, offset(cur_pos, rook_dir, 0), king_pos, rook_dir,
                    IF b[cur_pos].kind = "Pawn" THEN found_pawns + 1 ELSE found_pawns)

EnPassantExposesKing(g, mov, to_move_color) ==
    LET king_pos == king(g.bitboards, to_move_color)
        pawn_dir == rank_direction(mov.from, king_pos)
    IN  /\ rank(king_pos) = rank(mov.from)
        /\ \E rook_pos \in rooks(g.bitboards, opposite(to_move_color)) :
              /\ rank(rook_pos) = rank(mov.from)
              /\ rank_direction(rook_pos, mov.from) = pawn_dir
              /\ FoundPawns(g.board, rook_pos, king_pos,
                            rank_direction(rook_pos, mov.from), 0) = 2

\* CastleAllowed without the test of the castling rights
CastleAllowed_attacks_only(g, mov, to_move_color, enemy_attacks) ==
    {mov.from, (mov.from + mov.to) \div 2, mov.to} \cap enemy_attacks = {}

\* CastleAllowed without the test of the king's squares
CastleAllowed_rights_only(g, mov, to_move_color, enemy_attacks) ==
    /\ file(mov.to) < file(mov.from) => queen_side(castle_rights(g, to_move_color))
    /\ file(mov.to) > file(mov.from) => king_side(castle_rights(g, to_move_color))

CastleAllowed(g, mov, to_move_color, enemy_attacks) ==
    LET rr == root_rank(to_move_color)
        d == file(mov.to) - file(mov.from)
        castle_dir == IF d > 0 THEN 1 ELSE -1
        all_to_check == {new_unchecked(file(mov.from), rr),
                         new_unchecked(file(offset(mov.from, castle_dir, 0)), rr),
                         new_unchecked(file(offset(mov.from, castle_dir * 2, 0)), rr)}
    IN  /\ castle_dir = -1 => queen_side(castle_rights(g, to_move_color))
        /\ castle_dir = 1 => king_side(castle_rights(g, to_move_color))
        /\ all_to_check \cap enemy_attacks = {}

\* the part of is_move_legal after the pin test
LegalAfterPins(g, mov, piece_to_move) ==
    LET to_move_color == piece_to_move.color
        bb == g.bitboards
        enemy_attacks == attacks(bb, opposite(to_move_color))
        checks == blockable_checks(bb, to_move_color)
        in_check == king(bb, to_move_color) \in enemy_attacks
    IN  IF in_check /\ piece_to_move.kind # "King"
        THEN Len(checks) = 1 /\ mov.to \in checks[1]
        ELSE /\ piece_to_move.kind = "King" =>
                   /\ mov.to \notin enemy_attacks
                   /\ mov.move_type.tag = "Castle" =>
                          CastleAllowed(g, mov, to_move_color, enemy_attacks)
             /\ mov.move_type.tag = "EnPassantCapture" =>
                   ~EnPassantExposesKing(g, mov, to_move_color)

\* is_move_legal without the pin test
is_move_legal_no_pin(g, mov) ==
    IF g.board[mov.from] = NoPiece THEN FALSE
    ELSE LegalAfterPins(g, mov, g.board[mov.from])

\* is_move_legal with a test of the side to move in front
is_move_legal_side_to_move(g, mov) ==
    LET piece_to_move == g.board[mov.from]
        pin == FirstContaining(pinned(g.bitboards, piece_to_move.color), mov.from)
    IN  IF piece_to_move = NoPiece THEN FALSE
        ELSE IF piece_to_move.color # g.current_turn THEN FALSE
        ELSE IF pin # {} THEN mov.to \in pin
        ELSE LegalAfterPins(g, mov, piece_to_move)

is_move_legal(g, mov) ==
    LET piece_to_move == g.board[mov.from]
        pin == FirstContaining(pinned(g.bitboards, piece_to_move.color), mov.from)
    IN  IF piece_to_move = NoPiece THEN FALSE
        ELSE IF pin # {} THEN mov.to \in pin
        ELSE LegalAfterPins(g, mov, piece_to_move)

legal_moves(g, position) ==
    SelectSeq(pseudo_legal_moves(g, position), LAMBDA mov : is_move_legal(g, mov))

all_legal_moves(g, color) ==
    LET ps == BitboardIter(pieces(g.bitboards, color))
    IN  Flatten([i \in 1 .. Len(ps) |-> legal_moves(g, ps[i])])

----------------------------------------------------------------------------
(* game.rs: Game *)

GameNew(b, turn, white_rights, black_rights, en_passent) ==
    LET res == [current_turn |-> turn, board |-> b, move_stack |-> <<>>,
                bitboards |-> GameBitBoardsDefault,
                white_castle_rights |-> white_rights,
                black_castle_rights |-> black_rights,
                en_passent_field |-> en_passent]
    IN  [res EXCEPT !.bitboards = GameBitBoardsNew(res)]

is_in_check(g) ==
    king(g.bitboards, g.current_turn) \in attacks(g.bitboards, opposite(g.current_turn))

\* RightsAfter with the two corners taken for each other
RightsAfter_swapped(g, mov, piece_to_move) ==
    LET turn == g.current_turn
        old == castle_rights(g, turn)
        new == IF piece_to_move.kind = "King" THEN remove_both(old)
               ELSE IF piece_to_move.kind = "Rook"
                    THEN IF mov.from = new_unchecked(0, root_rank(turn))
                         THEN remove_king_side(old)
                         ELSE IF mov.from = new_unchecked(7, root_rank(turn))
                              THEN remove_queen_side(old)
                              ELSE old
                    ELSE old
    IN  [white |-> IF turn = "White" THEN new ELSE g.white_castle_rights,
         black |-> IF turn = "Black" THEN new ELSE g.black_castle_rights]

\* the castling rights after the king or a corner rook of the mover leaves
RightsAfter(g, mov, piece_to_move) ==
    LET turn == g.current_turn
        old == castle_rights(g, turn)
        new == IF piece_to_move.kind = "King" THEN remove_both(old)
               ELSE IF piece_to_move.kind = "Rook"
                    THEN IF mov.from = new_unchecked(0, root_rank(turn))
                         THEN remove_queen_side(old)
                         ELSE IF mov.from = new_unchecked(7, root_rank(turn))
                              THEN remove_king_side(old)
                              ELSE old
                    ELSE old
    IN  [white |-> IF turn = "White" THEN new ELSE g.white_castle_rights,
         black |-> IF turn = "Black" THEN new ELSE g.black_castle_rights]

\* the panic! arms of make_move: a castle that does not start on the mover's
\* home rank or does not end on file g or c, and the unwrap of the square
\* behind an en-passant destination
MakeMovePanics(g, mov) ==
    \/ /\ mov.move_type.tag = "Castle"
       /\ \/ rank(mov.from) # root_rank(g.current_turn)
          \/ file(mov.to) \notin {6, 2}
    \/ /\ mov.move_type.tag = "EnPassantCapture"
       /\ offset(mov.to, 0, -board_direction(g.current_turn)) = NoPos

\* the board mutation of make_move with an en-passant capture that leaves
\* the captured pawn where it is
BoardAfter_pawn_stays(g, mov) ==
    LET b == g.board
        turn == g.current_turn
        rr == root_rank(turn)
        tag == mov.move_type.tag
        moved == BoardMakeMove(b, mov.from, mov.to)
    IN  CASE tag = "Castle" ->
                IF file(mov.to) = 6
                THEN BoardMakeMove(moved, new_unchecked(7, rr), new_unchecked(5, rr))
                ELSE BoardMakeMove(moved, new_unchecked(0, rr), new_unchecked(3, rr))
          [] tag \in {"PromotionCapture", "PromotionQuite"} ->
                place_piece(moved, Piece(mov.move_type.promotion, turn), mov.to)
          [] OTHER -> moved

\* the board mutation of make_move by move tag
BoardAfter(g, mov) ==
    LET b == g.board
        turn == g.current_turn
        rr == root_rank(turn)
        tag == mov.move_type.tag
        moved == BoardMakeMove(b, mov.from, mov.to)
    IN  CASE tag = "Castle" ->
                IF file(mov.to) = 6
                THEN BoardMakeMove(moved, new_unchecked(7, rr), new_unchecked(5, rr))
                ELSE BoardMakeMove(moved, new_unchecked(0, rr), new_unchecked(3, rr))
          [] tag \in {"PromotionCapture", "PromotionQuite"} ->
                place_piece(moved, Piece(mov.move_type.promotion, turn), mov.to)
          [] tag = "EnPassantCapture" ->
                remove_piece(moved, offset(mov.to, 0, -board_direction(turn)))
          [] OTHER -> moved

StackEntry(mov, white_castle, black_castle, en_passent) ==
    [mov |-> mov, white_castle |-> white_castle, black_castle |-> black_castle,
     en_passent |-> en_passent]

\* make_move and unmake_move without their last statement: the cache is kept
Refreshed_kept(g) == g

\* the Game g with its bitboard cache rebuilt
Refreshed(g) == [g EXCEPT !.bitboards = GameBitBoardsNew(g)]

\* make_move past its two bail! checks: the field updates, the push on the
\* undo stack, the turn change and the rebuild of the cache
MakeMoveChecked(g, mov) ==
    IF MakeMovePanics(g, mov) THEN [result |-> "Panic", game |-> g]
    ELSE [result |-> "Ok",
          game |-> Refreshed(
              [g EXCEPT
                 !.en_passent_field =
                     IF mov.move_type.tag = "DoublePawnPush"
                     THEN mov.move_type.pos ELSE NoPos,
                 !.white_castle_rights = RightsAfter(g, mov, g.board[mov.from]).white,
                 !.black_castle_rights = RightsAfter(g, mov, g.board[mov.from]).black,
                 !.board = BoardAfter(g, mov),
                 !.move_stack = Append(g.move_stack,
                     StackEntry(mov, g.white_castle_rights,
                                g.black_castle_rights, g.en_passent_field)),
                 !.current_turn = opposite(g.current_turn)])]

\* make_move with the en-passant reset moved in front of the two checks
make_move_reset_first(g, mov) ==
    IF g.board[mov.from] = NoPiece \/ g.board[mov.from].color # g.current_turn
    THEN [result |-> "Err", game |-> [g EXCEPT !.en_passent_field = NoPos]]
    ELSE MakeMoveChecked(g, mov)

\* the result r of make_move(g, mov) had the en-passant target not been
\* cleared first
KeptTarget(g, mov, r) ==
    IF r.result = "Ok" /\ mov.move_type.tag # "DoublePawnPush"
    THEN [r EXCEPT !.game.en_passent_field = g.en_passent_field]
    ELSE r

\* make_move without the reset of the en-passant target
make_move_keep_target(g, mov) ==
    KeptTarget(g, mov,
               IF g.board[mov.from] = NoPiece \/ g.board[mov.from].color # g.current_turn
               THEN [result |-> "Err", game |-> g]
               ELSE MakeMoveChecked(g, mov))

\* make_move: the result ("Ok", "Err" or "Panic") and the Game afterwards
make_move(g, mov) ==
    IF g.board[mov.from] = NoPiece \/ g.board[mov.from].color # g.current_turn
    THEN [result |-> "Err", game |-> g]
    ELSE MakeMoveChecked(g, mov)

\* the panic! arms of unmake_move
UnmakeMovePanics(g) ==
    /\ g.move_stack # <<>>
    /\ LET mov == g.move_stack[Len(g.move_stack)].mov
       IN  \/ /\ mov.move_type.tag = "Castle"
              /\ \/ rank(mov.to) # root_rank(opposite(g.current_turn))
                 \/ file(mov.to) \notin {6, 2}
           \/ /\ mov.move_type.tag = "EnPassantCapture"
              /\ offset(mov.to, 0, board_direction(g.current_turn)) = NoPos

\* the board mutation of unmake_move by move tag
BoardBefore(g, mov) ==
    LET b == g.board
        turn == g.current_turn
        rr == root_rank(opposite(turn))
        tag == mov.move_type.tag
        back == BoardMakeMove(b, mov.to, mov.from)
    IN  CASE tag = "PromotionCapture" ->
                place_piece(
                    remove_piece(place_piece(b, Piece("Pawn", opposite(turn)), mov.from),
                                 mov.to),
                    Piece(mov.move_type.captured, turn), mov.to)
          [] tag = "PromotionQuite" ->
                remove_piece(place_piece(b, Piece("Pawn", opposite(turn)), mov.from), mov.to)
          [] tag = "Castle" ->
                IF file(mov.to) = 6
                THEN BoardMakeMove(back, new_unchecked(5, rr), new_unchecked(7, rr))
                ELSE BoardMakeMove(back, new_unchecked(3, rr), new_unchecked(0, rr))
          [] tag = "Capture" ->
                place_piece(back, Piece(mov.move_type.captured, turn), mov.to)
          [] tag = "EnPassantCapture" ->
                place_piece(back, Piece("Pawn", turn),
                            offset(mov.to, 0, board_direction(turn)))
          [] OTHER -> back

\* unmake_move with top popped off a non-empty undo stack
UnmakePopped(g, top) ==
    Refreshed(
        [g EXCEPT
           !.move_stack = SubSeq(g.move_stack, 1, Len(g.move_stack) - 1),
           !.board = BoardBefore(g, top.mov),
           !.white_castle_rights = top.white_castle,
           !.black_castle_rights = top.black_castle,
           !.en_passent_field = top.en_passent,
           !.current_turn = opposite(g.current_turn)])

\* unmake_move with the turn change in front of the pop
unmake_move_turn_first(g) ==
    IF g.move_stack = <<>> THEN [g EXCEPT !.current_turn = opposite(g.current_turn)]
    ELSE IF UnmakeMovePanics(g) THEN g
    ELSE UnmakePopped(g, g.move_stack[Len(g.move_stack)])

\* unmake_move: the Game afterwards (unchanged when the stack is empty)
unmake_move(g) ==
    IF g.move_stack = <<>> \/ UnmakeMovePanics(g) THEN g
    ELSE UnmakePopped(g, g.move_stack[Len(g.move_stack)])

----------------------------------------------------------------------------
(* fen.rs: parse_game.  A record is the sequence of its whitespace-separated *)
(* parts, each part the sequence of its characters.                          *)

PieceOfChar(c) ==
    CASE c = "P" -> Piece("Pawn", "White")     [] c = "p" -> Piece("Pawn", "Black")
      [] c = "N" -> Piece("Knight", "White")   [] c = "n" -> Piece("Knight", "Black")
      [] c = "B" -> Piece("Bishop", "White")   [] c = "b" -> Piece("Bishop", "Black")
      [] c = "R" -> Piece("Rook", "White")     [] c = "r" -> Piece("Rook", "Black")
      [] c = "Q" -> Piece("Queen", "White")    [] c = "q" -> Piece("Queen", "Black")
      [] c = "K" -> Piece("King", "White")     [] c = "k" -> Piece("King", "Black")
      [] OTHER -> NoPiece

DigitChars == <<"0", "1", "2", "3", "4", "5", "6", "7", "8", "9">>

\* characters char::is_numeric accepts and char::to_digit(10) does not
NumericNotDigit == {"¾", "²"}

IndexOf(seq, c) ==
    LET idx == {i \in 1 .. Len(seq) : seq[i] = c}
    IN  IF idx = {} THEN 0 ELSE CHOOSE i \in idx : TRUE

\* one turn of the loop over the characters of the placement part.  row and
\* col are u8: arithmetic that leaves 0 .. 255 panics in a build with
\* overflow checks and wraps in a build without them
ParseBoardStep(st, c) ==
    IF st.status # "Ok" THEN st
    ELSE IF c \in NumericNotDigit THEN [st EXCEPT !.status = "Panic"]
    ELSE IF IndexOf(DigitChars, c) # 0
         THEN IF st.col + IndexOf(DigitChars, c) - 1 > 255 /\ st.overflow_checks
              THEN [st EXCEPT !.status = "Panic"]
              ELSE [st EXCEPT !.col = (st.col + IndexOf(DigitChars, c) - 1) % 256]
    ELSE IF c = "/"
         THEN IF st.row = 0 /\ st.overflow_checks THEN [st EXCEPT !.status = "Panic"]
              ELSE [st EXCEPT !.row = (st.row + 255) % 256, !.col = 0]
    ELSE IF PieceOfChar(c) = NoPiece THEN [st EXCEPT !.status = "Err"]
    ELSE IF ~(st.col < 8 /\ st.row < 8) THEN [st EXCEPT !.status = "Err"]
    ELSE [st EXCEPT !.col = st.col + 1,
                    !.board = place_piece(st.board, PieceOfChar(c),
                                          new_unchecked(st.col, st.row))]

\* the turns lo .. hi of the loop over the characters, begun in st: the
\* first half of them and then, from the state they end in, the second
RECURSIVE ParseBoardTurns(_, _, _, _)
ParseBoardTurns(chars, lo, hi, st) ==
    IF lo > hi THEN st
    ELSE IF lo = hi THEN ParseBoardStep(st, chars[lo])
    ELSE CHOOSE end \in {ParseBoardTurns(chars, (lo + hi) \div 2 + 1, hi, half) :
                             half \in {ParseBoardTurns(chars, lo, (lo + hi) \div 2, st)}} :
             TRUE

\* the loop over the characters of the placement part
ParseBoard(chars, overflow_checks) ==
    ParseBoardTurns(chars, 1, Len(chars),
                    [status |-> "Ok", row |-> 7, col |-> 0, board |-> BoardDefault,
                     overflow_checks |-> overflow_checks])

BitOrAssign(self, rhs) ==
    IF self = "None" THEN rhs
    ELSE IF self = "KingSide" /\ rhs = "QueenSide" THEN "Both"
    ELSE IF self = "QueenSide" /\ rhs = "KingSide" THEN "Both"
    ELSE self

RECURSIVE ParseCastle(_, _, _, _)
ParseCastle(chars, i, white, black) ==
    IF i > Len(chars) THEN [status |-> "Ok", white |-> white, black |-> black]
    ELSE LET c == chars[i]
         IN  CASE c = "K" -> ParseCastle(chars, i + 1, BitOrAssign(white, "KingSide"), black)
               [] c = "Q" -> ParseCastle(chars, i + 1, BitOrAssign(white, "QueenSide"), black)
               [] c = "k" -> ParseCastle(chars, i + 1, white, BitOrAssign(black, "KingSide"))
               [] c = "q" -> ParseCastle(chars, i + 1, white, BitOrAssign(black, "QueenSide"))
               [] c = "-" -> ParseCastle(chars, i + 1, white, black)
               [] OTHER -> [status |-> "Err", white |-> white, black |-> black]

FileChars == <<"a", "b", "c", "d", "e", "f", "g", "h">>

RankChars == <<"1", "2", "3", "4", "5", "6", "7", "8">>

\* Position::from_str: NoPos stands for the failure value
PositionFromStr(chars) ==
    IF Len(chars) # 2 THEN NoPos
    ELSE IF IndexOf(FileChars, chars[1]) = 0 \/ IndexOf(RankChars, chars[2]) = 0 THEN NoPos
    ELSE new_unchecked(IndexOf(FileChars, chars[1]) - 1, IndexOf(RankChars, chars[2]) - 1)

\* the absent Game of a failed parse or of an idle call
NoGame == [current_turn |-> "None"]

\* parse_game in a build with or without overflow checks: "Ok" with the
\* Game, "Err", or "Panic" when the call never returns
parse_game_built(fen, overflow_checks) ==
    LET failed == [status |-> "Err", game |-> NoGame]
        bp == IF Len(fen) >= 1 THEN ParseBoard(fen[1], overflow_checks)
              ELSE [status |-> "Err", board |-> BoardDefault]
        turn == IF Len(fen) < 2 THEN "White"
                ELSE IF fen[2] \in {<<"w">>, <<"W">>} THEN "White"
                ELSE IF fen[2] \in {<<"b">>, <<"B">>} THEN "Black"
                ELSE "Err"
        cr == IF Len(fen) < 3 THEN [status |-> "Ok", white |-> "None", black |-> "None"]
              ELSE ParseCastle(fen[3], 1, "None", "None")
        ep == IF Len(fen) < 4 \/ fen[4] = <<"-">> THEN NoPos ELSE PositionFromStr(fen[4])
        ep_failed == Len(fen) >= 4 /\ fen[4] # <<"-">> /\ ep = NoPos
    IN  IF bp.status # "Ok" THEN [failed EXCEPT !.status = bp.status]
        ELSE IF turn = "Err" \/ cr.status # "Ok" \/ ep_failed THEN failed
        ELSE [status |-> "Ok", game |-> GameNew(bp.board, turn, cr.white, cr.black, ep)]

\* parse_game as the dev and test profiles build it, with overflow checks
parse_game(fen) == parse_game_built(fen, TRUE)

----------------------------------------------------------------------------
(* fen.rs: from_game.  The record it writes is one sequence of characters;  *)
(* split_whitespace cuts it into the parts parse_game reads.                *)

get_print_char(piece) ==
    CASE piece = Piece("Pawn", "White") -> "P"     [] piece = Piece("Pawn", "Black") -> "p"
      [] piece = Piece("Knight", "White") -> "N"   [] piece = Piece("Knight", "Black") -> "n"
      [] piece = Piece("Bishop", "White") -> "B"   [] piece = Piece("Bishop", "Black") -> "b"
      [] piece = Piece("Rook", "White") -> "R"     [] piece = Piece("Rook", "Black") -> "r"
      [] piece = Piece("Queen", "White") -> "Q"    [] piece = Piece("Queen", "Black") -> "q"
      [] piece = Piece("King", "White") -> "K"     [] piece = Piece("King", "Black") -> "k"

\* the run of empty squares counted so far, written as a digit
EmptyRun(empty) == IF empty > 0 THEN <<DigitChars[empty + 1]>> ELSE <<>>

\* the inner loop of from_game over the columns of one row, from col on
RECURSIVE RowChars(_, _, _, _)
RowChars(b, row, col, empty) ==
    IF col = 8 THEN EmptyRun(empty)
    ELSE IF b[new_unchecked(col, row)] # NoPiece
         THEN EmptyRun(empty) \o <<get_print_char(b[new_unchecked(col, row)])>>
                 \o RowChars(b, row, col + 1, 0)
    ELSE RowChars(b, row, col + 1, empty + 1)

\* the outer loop of from_game over the rows, from row down to 0
RECURSIVE PlacementChars(_, _)
PlacementChars(b, row) ==
    RowChars(b, row, 0, 0)
        \o (IF row > 0 THEN <<"/">> \o PlacementChars(b, row - 1) ELSE <<>>)

\* CastleRights::to_string
CastleRightsToString(r, color) ==
    CASE r = "None" -> <<"-">>
      [] r = "KingSide" -> IF color = "White" THEN <<"K">> ELSE <<"k">>
      [] r = "QueenSide" -> IF color = "White" THEN <<"Q">> ELSE <<"q">>
      [] r = "Both" -> IF color = "White" THEN <<"K", "Q">> ELSE <<"k", "q">>

\* the match on the two sides' rights in from_game
CastlingChars(white, black) ==
    IF white = "None" /\ black = "None" THEN <<"-">>
    ELSE IF white = "None" THEN CastleRightsToString(black, "Black")
    ELSE IF black = "None" THEN CastleRightsToString(white, "White")
    ELSE CastleRightsToString(white, "White") \o CastleRightsToString(black, "Black")

\* Display for Position with the rows counted from '0'
PositionToString_from_zero(p) == <<FileChars[file(p) + 1], DigitChars[rank(p) + 1]>>

\* Display for Position: the column from 'a', the row from '1'
PositionToString(p) == <<FileChars[file(p) + 1], RankChars[rank(p) + 1]>>

from_game(g) ==
    PlacementChars(g.board, 7)
        \o <<" ">> \o (IF g.current_turn = "White" THEN <<"w">> ELSE <<"b">>)
        \o <<" ">> \o CastlingChars(g.white_castle_rights, g.black_castle_rights)
        \o <<" ">> \o (IF g.en_passent_field = NoPos THEN <<"-">>
                       ELSE PositionToString(g.en_passent_field))
        \o <<" ">> \o <<"0">>
        \o <<" ">> \o <<"1">>

\* where the parts of chars start: a character other than a blank that is
\* the first one or follows a blank
PartStarts(chars) ==
    {i \in 1 .. Len(chars) : chars[i] # " " /\ (i = 1 \/ chars[i - 1] = " ")}

\* where the part that starts at i ends
PartEnd(chars, i) ==
    LowestOf({j \in i .. Len(chars) : j = Len(chars) \/ chars[j + 1] = " "})

\* str::split_whitespace: the maximal runs of characters other than blanks
split_whitespace(chars) ==
    [k \in 1 .. Cardinality(PartStarts(chars)) |->
        SubSeq(chars, SetToSortedSeq(PartStarts(chars))[k],
               PartEnd(chars, SetToSortedSeq(PartStarts(chars))[k]))]

----------------------------------------------------------------------------
(* The position records the Games are constructed from: the records of the  *)
(* repository's tests and a few more.                                       *)

\* rnbqkbnr/pppppppp/8/8/8/8/PPPPPPPP/RNBQKBNR w KQkq -   (Game::default, game.rs:29)
FenStart ==
    << <<"r", "n", "b", "q", "k", "b", "n", "r", "/", "p", "p", "p", "p", "p", "p", "p", "p", "/", "8", "/", "8", "/", "8", "/", "8", "/", "P", "P", "P", "P", "P", "P", "P", "P", "/", "R", "N", "B", "Q", "K", "B", "N", "R">>, <<"w">>, <<"K", "Q", "k", "q">>, <<"-">> >>

\* 8/8/3p4/K1pP3r/4Rp1k/8/4P1P1/8 b - c6   (move_generation.rs:679)
FenPin ==
    << <<"8", "/", "8", "/", "3", "p", "4", "/", "K", "1", "p", "P", "3", "r", "/", "4", "R", "p", "1", "k", "/", "8", "/", "4", "P", "1", "P", "1", "/", "8">>, <<"b">>, <<"-">>, <<"c", "6">> >>

\* 8/8/3p4/K1pP3r/4R2k/5p2/4P1P1/8 b - -   (move_generation.rs:705)
FenInCheck ==
    << <<"8", "/", "8", "/", "3", "p", "4", "/", "K", "1", "p", "P", "3", "r", "/", "4", "R", "2", "k", "/", "5", "p", "2", "/", "4", "P", "1", "P", "1", "/", "8">>, <<"b">>, <<"-">>, <<"-">> >>

\* 5r2/8/8/8/8/8/8/R3K2R w KQ -   (move_generation.rs:713)
FenCastle ==
    << <<"5", "r", "2", "/", "8", "/", "8", "/", "8", "/", "8", "/", "8", "/", "8", "/", "R", "3", "K", "2", "R">>, <<"w">>, <<"K", "Q">>, <<"-">> >>

\* r3k2r/pppppppp/8/8/8/8/PPPPPPPP/R3K2R w KQkq -   (game.rs:671)
FenRights ==
    << <<"r", "3", "k", "2", "r", "/", "p", "p", "p", "p", "p", "p", "p", "p", "/", "8", "/", "8", "/", "8", "/", "8", "/", "P", "P", "P", "P", "P", "P", "P", "P", "/", "R", "3", "K", "2", "R">>, <<"w">>, <<"K", "Q", "k", "q">>, <<"-">> >>

\* 5n2/4P3/8/8/8/8/8/8 w - -   (game.rs:547)
FenPromotion ==
    << <<"5", "n", "2", "/", "4", "P", "3", "/", "8", "/", "8", "/", "8", "/", "8", "/", "8", "/", "8">>, <<"w">>, <<"-">>, <<"-">> >>

\* 8/8/8/2Pp4/8/8/8/8 w - d6   (game.rs:605)
FenEnPassant ==
    << <<"8", "/", "8", "/", "8", "/", "2", "P", "p", "4", "/", "8", "/", "8", "/", "8", "/", "8">>, <<"w">>, <<"-">>, <<"d", "6">> >>

\* 2n1r3/3P4/8/8/7b/3N4/8/4K3 b - -   (move_generation.rs:739)
FenBlockBoth ==
    << <<"2", "n", "1", "r", "3", "/", "3", "P", "4", "/", "8", "/", "8", "/", "7", "b", "/", "3", "N", "4", "/", "8", "/", "4", "K", "3">>, <<"b">>, <<"-">>, <<"-">> >>

\* k3r3/8/8/8/7b/3n4/4R3/4K3 w - -   (a double check (knight d3, bishop h4) with the rook e2 pinned)
FenDoubleCheckPin ==
    << <<"k", "3", "r", "3", "/", "8", "/", "8", "/", "8", "/", "7", "b", "/", "3", "n", "4", "/", "4", "R", "3", "/", "4", "K", "3">>, <<"w">>, <<"-">>, <<"-">> >>

\* 4k3/8/8/3P4/8/8/8/4K3 w - c6   (an en-passant target with no pawn behind it)
FenEnPassantNoPawn ==
    << <<"4", "k", "3", "/", "8", "/", "8", "/", "3", "P", "4", "/", "8", "/", "8", "/", "8", "/", "4", "K", "3">>, <<"w">>, <<"-">>, <<"c", "6">> >>

\* 4k3/8/8/3p4/4P3/8/8/4K3 w - -   (two pawns that can take each other)
FenPawnDuel ==
    << <<"4", "k", "3", "/", "8", "/", "8", "/", "3", "p", "4", "/", "4", "P", "3", "/", "8", "/", "8", "/", "4", "K", "3">>, <<"w">>, <<"-">>, <<"-">> >>

\* 7k/8/6K1/8/8/8/8/R7 w - -   (a mate in one)
FenRookMate ==
    << <<"7", "k", "/", "8", "/", "6", "K", "1", "/", "8", "/", "8", "/", "8", "/", "8", "/", "R", "7">>, <<"w">>, <<"-">>, <<"-">> >>

\* 7k/5Q2/6K1/8/8/8/8/8 b - -   (the side to move has no legal move)
FenStalemate ==
    << <<"7", "k", "/", "5", "Q", "2", "/", "6", "K", "1", "/", "8", "/", "8", "/", "8", "/", "8", "/", "8">>, <<"b">>, <<"-">>, <<"-">> >>

\* 4k3/3p4/8/8/8/8/8/K2R4 w - -   (a defended pawn the rook can take)
FenPoisonedPawn ==
    << <<"4", "k", "3", "/", "3", "p", "4", "/", "8", "/", "8", "/", "8", "/", "8", "/", "8", "/", "K", "2", "R", "4">>, <<"w">>, <<"-">>, <<"-">> >>

\* 4k3/8/8/3q4/4P3/8/8/4K3 w - -   (a queen a pawn can take)
FenQueenHangs ==
    << <<"4", "k", "3", "/", "8", "/", "8", "/", "3", "q", "4", "/", "4", "P", "3", "/", "8", "/", "8", "/", "4", "K", "3">>, <<"w">>, <<"-">>, <<"-">> >>

\* 4k3/8/8/8/7b/8/5p2/r3K3 w - -   (a king checked along its rank next to a defended pawn)
FenKingHunt ==
    << <<"4", "k", "3", "/", "8", "/", "8", "/", "8", "/", "7", "b", "/", "8", "/", "5", "p", "2", "/", "r", "3", "K", "3">>, <<"w">>, <<"-">>, <<"-">> >>

\* 8/8/8/8/8/8/8/R3K2R w - -   (move_generation.rs:719)
FenCastleNoRights ==
    << <<"8", "/", "8", "/", "8", "/", "8", "/", "8", "/", "8", "/", "8", "/", "R", "3", "K", "2", "R">>, <<"w">>, <<"-">>, <<"-">> >>

\* 5r2/8/8/8/8/8/8/R3K2R w - -   (the board of move_generation.rs:713 without castling rights)
FenCastleNoRightsRook ==
    << <<"5", "r", "2", "/", "8", "/", "8", "/", "8", "/", "8", "/", "8", "/", "8", "/", "R", "3", "K", "2", "R">>, <<"w">>, <<"-">>, <<"-">> >>

\* 4k3/8/8/KNpP3r/8/8/8/8 w - c6   (a knight between the king and the two pawns of an en-passant capture)
FenEnPassantShield ==
    << <<"4", "k", "3", "/", "8", "/", "8", "/", "K", "N", "p", "P", "3", "r", "/", "8", "/", "8", "/", "8", "/", "8">>, <<"w">>, <<"-">>, <<"c", "6">> >>

\* 7k/8/6K1/8/8/8/8/RQ6 b - -   (the side to move is a queen and a rook down and can move)
FenQueenRookUp ==
    << <<"7", "k", "/", "8", "/", "6", "K", "1", "/", "8", "/", "8", "/", "8", "/", "8", "/", "R", "Q", "6">>, <<"b">>, <<"-">>, <<"-">> >>

Origins ==
    {"QueenRookUp", "EnPassantShield", "CastleNoRightsRook", "CastleNoRights", "KingHunt", "QueenHangs", "RookMate", "PawnDuel", "Start", "Pin", "InCheck", "Castle", "Rights", "Promotion", "EnPassant", "BlockBoth", "DoubleCheckPin", "EnPassantNoPawn"}

FenOf(o) ==
    CASE o = "Start" -> FenStart
      [] o = "Pin" -> FenPin
      [] o = "InCheck" -> FenInCheck
      [] o = "Castle" -> FenCastle
      [] o = "Rights" -> FenRights
      [] o = "Promotion" -> FenPromotion
      [] o = "EnPassant" -> FenEnPassant
      [] o = "BlockBoth" -> FenBlockBoth
      [] o = "DoubleCheckPin" -> FenDoubleCheckPin
      [] o = "EnPassantNoPawn" -> FenEnPassantNoPawn
      [] o = "PawnDuel" -> FenPawnDuel
      [] o = "RookMate" -> FenRookMate
      [] o = "QueenHangs" -> FenQueenHangs
      [] o = "KingHunt" -> FenKingHunt
      [] o = "CastleNoRights" -> FenCastleNoRights
      [] o = "CastleNoRightsRook" -> FenCastleNoRightsRook
      [] o = "EnPassantShield" -> FenEnPassantShield
      [] o = "Stalemate" -> FenStalemate
      [] o = "PoisonedPawn" -> FenPoisonedPawn
      [] o = "QueenRookUp" -> FenQueenRookUp

\* 1. e4 d5 2. exd5 Qxd5 3. Qe2 Qe5 4. a3 Nc6 5. a4 Nd4 6. a5 Nxc2+ as (from, to)
Line ==
    << <<12, 28>>, <<51, 35>>, <<28, 35>>, <<59, 35>>, <<3, 12>>, <<35, 36>>, <<8, 16>>, <<57, 42>>, <<16, 24>>, <<42, 27>>, <<24, 32>>, <<27, 10>> >>

\* 1. d4 a6 2. d5 a5 3. Kd2 a4 4. Kd3 h6 5. Kd4 c5+ as (from, to): the pawn
\* that just made a double step checks the king and stands beside a pawn
LineEnPassantCheck ==
    << <<11, 27>>, <<48, 40>>, <<27, 35>>, <<40, 32>>, <<4, 11>>, <<32, 24>>, <<11, 19>>, <<55, 47>>, <<19, 27>>, <<50, 34>> >>

\* 1. d4 e6 2. a3 Bb4+ as (from, to): a check along a diagonal
LineBishopCheck ==
    << <<11, 27>>, <<52, 44>>, <<8, 16>>, <<61, 25>> >>

Lines == {Line, LineEnPassantCheck, LineBishopCheck}

----------------------------------------------------------------------------
(* The Game as a state function, and the driver that calls it *)

MaxPly == 1

LinePly == 1

Game ==
    [current_turn |-> current_turn, board |-> board, move_stack |-> move_stack,
     bitboards |-> bitboards, white_castle_rights |-> white_castle_rights,
     black_castle_rights |-> black_castle_rights, en_passent_field |-> en_passent_field]

SetGame(g) ==
    /\ current_turn' = g.current_turn
    /\ board' = g.board
    /\ move_stack' = g.move_stack
    /\ bitboards' = g.bitboards
    /\ white_castle_rights' = g.white_castle_rights
    /\ black_castle_rights' = g.black_castle_rights
    /\ en_passent_field' = g.en_passent_field

\* the Game variables hold g
IsGame(g) ==
    /\ current_turn = g.current_turn
    /\ board = g.board
    /\ move_stack = g.move_stack
    /\ bitboards = g.bitboards
    /\ white_castle_rights = g.white_castle_rights
    /\ black_castle_rights = g.black_castle_rights
    /\ en_passent_field = g.en_passent_field

\* the Game and the returned value after a call of make_move
SetResult(r) ==
    /\ SetGame(r.game)
    /\ last_result' = r.result

InitGame(o) ==
    /\ origin = o
    /\ fen_given = FenOf(o)
    /\ IsGame(parse_game(FenOf(o)).game)
    /\ last_op = "new"
    /\ last_result = "Ok"

\* the search state while no search runs
NoSearch ==
    [best_moves |-> <<>>, looked_at_positions |-> 0, skipped_positions |-> 0,
     ep_counts |-> FALSE]

\* no PlayGame has been built
NoPlayGame == [state |-> "None", white |-> "None", black |-> "None"]

\* no game runs on the server
NoRunningGame == [bot_color |-> "None", tx |-> <<>>]

Idle ==
    /\ pc = "idle"
    /\ frames = <<>>
    /\ ret = 0
    /\ depth = 0
    /\ node_count = 0
    /\ root = NoGame
    /\ search = NoSearch
    /\ last_arg = <<>>
    /\ play_game = NoPlayGame
    /\ running_game = NoRunningGame

Init ==
    /\ \E o \in Origins : InitGame(o)
    /\ Idle

\* the moves played so far followed by mov, as (from, to) pairs
Played(mov) ==
    [i \in 1 .. Len(move_stack) + 1 |->
        IF i <= Len(move_stack)
        THEN <<move_stack[i].mov.from, move_stack[i].mov.to>>
        ELSE <<mov.from, mov.to>>]

\* mov continues one of the recorded games Lines, or is among the first
\* LinePly moves after its end
FollowsLine(mov) ==
    /\ origin = "Start"
    /\ \E line \in Lines :
          /\ Len(move_stack) < Len(line) + LinePly
          /\ \A i \in 1 .. Len(move_stack) + 1 : i <= Len(line) => Played(mov)[i] = line[i]

\* a caller plays a legal move of the side to move
MakeLegalMove ==
    /\ pc = "idle"
    /\ Len(move_stack) < Len(Line) + LinePly
    /\ origin = "Start" \/ Len(move_stack) < MaxPly
    /\ \E mov \in Range(all_legal_moves(Game, current_turn)) :
          /\ Len(move_stack) < MaxPly \/ FollowsLine(mov)
          /\ SetResult(make_move(Game, mov))
          /\ last_op' = "make_move"
    /\ UNCHANGED <<origin, fen_given, callVars>>

\* moves whose origin is empty or holds a piece of the side not to move
InvalidCandidates(g) ==
    LET empty == {p \in Squares : g.board[p] = NoPiece}
        wrong == {p \in Squares : g.board[p].color = opposite(g.current_turn)
                                  /\ pseudo_legal_moves(g, p) # <<>>}
    IN  (IF empty = {} THEN {}
         ELSE {Move(LowestOf(empty), (LowestOf(empty) + 8) % 64, mt) :
                  mt \in {Quiet, EnPassantCapture, DoublePawnPush(LowestOf(empty))}})
        \cup (IF wrong = {} THEN {} ELSE Range(pseudo_legal_moves(g, LowestOf(wrong))))

\* a caller calls make_move with mov
MakeMoveWith(mov) ==
    /\ pc = "idle"
    /\ SetResult(make_move(Game, mov))
    /\ last_op' = "make_move"
    /\ UNCHANGED <<origin, fen_given, callVars>>

MakeInvalidMove ==
    \E mov \in InvalidCandidates(Game) : MakeMoveWith(mov)

\* a caller calls unmake_move, whatever the undo stack holds
UnmakeMove ==
    /\ pc = "idle"
    /\ SetGame(unmake_move(Game))
    /\ last_op' = "unmake_move"
    /\ last_result' = IF move_stack = <<>> THEN "No moves to unmake." ELSE "Ok"
    /\ UNCHANGED <<origin, fen_given, callVars>>

Next ==
    \/ MakeLegalMove
    \/ MakeInvalidMove
    \/ UnmakeMove

Spec == Init /\ [][Next]_vars

----------------------------------------------------------------------------
(* perft.rs: PerfTest::run_perft and PerfTest::step as a stack of loop      *)
(* frames.  frames[1] is the loop of run_perft, frames[k + 1] the loop of   *)
(* step(k).                                                                 *)

\* the depths perft is run with
PerftDepths == {1, 2, 3}

\* the frame on top of the call stack
Top == frames[Len(frames)]

\* a loop over the legal moves of the side to move in g, not yet started
PerftFrame(g) ==
    [moves |-> all_legal_moves(g, g.current_turn), i |-> 1, total |-> 0]

\* the loop on top of fs has finished one iteration that counted n
Advance(fs, n) ==
    [fs EXCEPT ![Len(fs)].i = @ + 1, ![Len(fs)].total = @ + n]

PerftInit ==
    /\ InitGame("Start")
    /\ Idle

\* PerfTest::new(game, depth) and the entry of run_perft
PerftStart ==
    /\ pc = "idle"
    /\ \E d \in PerftDepths : depth' = d
    /\ root' = Game
    /\ frames' = <<PerftFrame(Game)>>
    /\ pc' = "perft"
    /\ UNCHANGED <<gameVars, last_result, last_op, origin, fen_given, last_arg, play_game, running_game, ret, node_count, search>>

\* r is what make_move returned; step goes on into its own loop
PerftStepInto(r) ==
    /\ SetGame(r.game)
    /\ IF r.result = "Ok"
       THEN /\ frames' = Append(frames, PerftFrame(r.game))
            /\ pc' = "perft"
       ELSE /\ pc' = "panic"
            /\ UNCHANGED frames

\* one iteration whose step call is below the depth: make_move, then the
\* entry of step up to its loop
PerftEnter ==
    /\ pc = "perft"
    /\ Len(frames) < depth
    /\ Top.i <= Len(Top.moves)
    /\ PerftStepInto(make_move(Game, Top.moves[Top.i]))
    /\ UNCHANGED <<last_result, last_op, origin, fen_given, last_arg, play_game, running_game, ret, depth, node_count, root, search>>

\* r is what make_move returned; step returns 1 and the move is unmade
PerftStepLeaf(r) ==
    IF r.result = "Ok"
    THEN /\ SetGame(unmake_move(r.game))
         /\ frames' = Advance(frames, 1)
         /\ ret' = 1
         /\ pc' = "perft"
    ELSE /\ SetGame(r.game)
         /\ pc' = "panic"
         /\ UNCHANGED <<frames, ret>>

\* one iteration whose step call is at the depth: make_move, step returns 1,
\* unmake_move
PerftLeaf ==
    /\ pc = "perft"
    /\ Len(frames) >= depth
    /\ Top.i <= Len(Top.moves)
    /\ PerftStepLeaf(make_move(Game, Top.moves[Top.i]))
    /\ UNCHANGED <<last_result, last_op, origin, fen_given, last_arg, play_game, running_game, depth, node_count, root, search>>

\* the loop of a step call is over: it returns its total, the caller adds it
\* and unmakes its move
PerftReturn ==
    /\ pc = "perft"
    /\ Len(frames) > 1
    /\ Top.i > Len(Top.moves)
    /\ SetGame(unmake_move(Game))
    /\ frames' = Advance(SubSeq(frames, 1, Len(frames) - 1), Top.total)
    /\ ret' = Top.total
    /\ UNCHANGED <<last_result, last_op, origin, fen_given, last_arg, play_game, running_game, pc, depth, node_count, root, search>>

\* the loop of run_perft is over: it returns the results
PerftDone ==
    /\ pc = "perft"
    /\ Len(frames) = 1
    /\ Top.i > Len(Top.moves)
    /\ node_count' = Top.total
    /\ frames' = <<>>
    /\ pc' = "done"
    /\ UNCHANGED <<gameVars, last_result, last_op, origin, fen_given, last_arg, play_game, running_game, ret, depth, root, search>>

PerftNext ==
    \/ PerftStart
    \/ PerftEnter
    \/ PerftLeaf
    \/ PerftReturn
    \/ PerftDone

PerftSpec == PerftInit /\ [][PerftNext]_vars

----------------------------------------------------------------------------
(* search.rs: best_move, AlphaBetaSearch::search and alpha_beta_captures as *)
(* a stack of loop frames.  A frame is the loop of one search or            *)
(* alpha_beta_captures call; search(0, ..) is its alpha_beta_captures(8, ..)*)
(* call.                                                                    *)

MAX_DEPTH == 4

MAX_MOVES == 4

\* what search returns for a side that is checkmated
CHECKMATE_SCORE == -1000

\* PieceType::value
value(kind) ==
    CASE kind = "Pawn" -> 100
      [] kind = "Knight" -> 330
      [] kind = "Bishop" -> 320
      [] kind = "Rook" -> 500
      [] kind = "Queen" -> 900
      [] kind = "King" -> 1000

\* MoveType::capture_type: the piece type a capturing move takes, "None" for
\* the others; whether an en-passant capture reports its pawn is left open
\* (ep_counts)
capture_type(move_type, ep_counts) ==
    IF move_type.tag \in {"Capture", "PromotionCapture"} THEN move_type.captured
    ELSE IF move_type.tag = "EnPassantCapture" /\ ep_counts THEN "Pawn"
    ELSE "None"

\* MoveType::is_capture
is_capture(move_type, ep_counts) == capture_type(move_type, ep_counts) # "None"

\* GameBitBoards::material: the values of the pieces in the occupancy
\* bitboards of color
material(bb, color) ==
    Cardinality(pawns(bb, color)) * value("Pawn")
    + Cardinality(knights(bb, color)) * value("Knight")
    + Cardinality(bishops(bb, color)) * value("Bishop")
    + Cardinality(rooks(bb, color)) * value("Rook")
    + Cardinality(queens(bb, color)) * value("Queen")

eval(g) ==
    material(g.bitboards, g.current_turn) - material(g.bitboards, opposite(g.current_turn))

move_order_score(mov, ep_counts) ==
    (IF capture_type(mov.move_type, ep_counts) # "None"
     THEN value(capture_type(mov.move_type, ep_counts)) ELSE 0)
    + (IF mov.move_type.tag = "Castle" THEN 100
       ELSE IF mov.move_type.tag \in {"PromotionQuite", "PromotionCapture"} THEN 400
       ELSE 0)

Scores(moves, ep_counts) == {move_order_score(moves[i], ep_counts) : i \in 1 .. Len(moves)}

HighestOf(S) == CHOOSE s \in S : \A t \in S : t <= s

\* sort_by_key(Reverse(score)): a stable sort, highest score first
RECURSIVE SortByScore(_, _, _)
SortByScore(moves, scores, ep_counts) ==
    IF scores = {} THEN <<>>
    ELSE SelectSeq(moves, LAMBDA m : move_order_score(m, ep_counts) = HighestOf(scores))
         \o SortByScore(moves, scores \ {HighestOf(scores)}, ep_counts)

\* the ordered legal moves of the side to move that search loops over
SortedLegalMoves(g, ep_counts) ==
    SortByScore(all_legal_moves(g, g.current_turn),
                Scores(all_legal_moves(g, g.current_turn), ep_counts), ep_counts)

\* the filter of alpha_beta_captures left out
CaptureMoves_all(g, ep_counts) == all_legal_moves(g, g.current_turn)

\* the capturing legal moves of the side to move
CaptureMoves(g, ep_counts) ==
    SelectSeq(all_legal_moves(g, g.current_turn),
              LAMBDA m : is_capture(m.move_type, ep_counts))

\* an empty entry of best_moves
NoBest == [some |-> FALSE, mov |-> Move(0, 0, Quiet), score |-> 0]

\* AlphaBetaSearch::new
AlphaBetaSearchNew(ep_counts) ==
    [best_moves |-> [k \in 1 .. MAX_MOVES |-> NoBest], looked_at_positions |-> 0,
     skipped_positions |-> 0, ep_counts |-> ep_counts]

\* the first entry of best_moves that is empty or scores below e, 0 if none
BestPosition(bm, e) ==
    IF \E k \in 1 .. MAX_MOVES : ~bm[k].some \/ bm[k].score < e
    THEN LowestOf({k \in 1 .. MAX_MOVES : ~bm[k].some \/ bm[k].score < e})
    ELSE 0

\* copy_within(pos..MAX_MOVES - 1, pos + 1) and the store at pos
InsertAt(bm, pos, mov, e) ==
    [k \in 1 .. MAX_MOVES |->
        IF k < pos THEN bm[k]
        ELSE IF k = pos THEN [some |-> TRUE, mov |-> mov, score |-> e]
        ELSE bm[k - 1]]

\* the store that overwrites the first entry with every move
InsertBest_last(bm, mov, e) == InsertAt(bm, 1, mov, e)

InsertBest(bm, mov, e) ==
    IF BestPosition(bm, e) = 0 THEN bm ELSE InsertAt(bm, BestPosition(bm, e), mov, e)

\* the positions the search starts from
SearchOrigins ==
    {"EnPassant", "EnPassantNoPawn", "PawnDuel", "RookMate", "QueenHangs", "Stalemate",
     "PoisonedPawn"}

SearchInit ==
    /\ \E o \in SearchOrigins : InitGame(o)
    /\ Idle

\* best_moves: AlphaBetaSearch::new and the call search(MAX_DEPTH, ..)
SearchStart ==
    /\ pc = "idle"
    /\ root' = Game
    /\ \E ep_counts \in BOOLEAN : search' = AlphaBetaSearchNew(ep_counts)
    /\ pc' = "enter"
    /\ UNCHANGED <<gameVars, last_result, last_op, origin, fen_given, last_arg, play_game, running_game, frames, ret, depth, node_count>>

\* the running call returns v
Returns(v) ==
    /\ ret' = v
    /\ frames' = SubSeq(frames, 1, Len(frames) - 1)
    /\ pc' = IF Len(frames) <= 1 THEN "searched" ELSE "return"

\* the call being entered returns v before it has a loop
ReturnsAtOnce(v) ==
    /\ ret' = v
    /\ pc' = IF frames = <<>> THEN "searched" ELSE "return"
    /\ UNCHANGED frames

\* the call being entered starts its loop
Loops(fn, d, alpha, beta, update_move, moves) ==
    /\ frames' = Append(frames, [fn |-> fn, depth |-> d, alpha |-> alpha, beta |-> beta,
                                 update_move |-> update_move, moves |-> moves, i |-> 1])
    /\ pc' = "loop"
    /\ UNCHANGED ret

\* search that scores every position without a legal move as a draw
EnterSearch_draw(d, alpha, beta, update_move, moves) ==
    IF moves = <<>>
    THEN ReturnsAtOnce(0)
    ELSE Loops("search", d, alpha, beta, update_move, moves)

\* search up to its loop, for depth > 0
EnterSearch(d, alpha, beta, update_move, moves) ==
    IF moves = <<>>
    THEN ReturnsAtOnce(IF is_in_check(Game) THEN CHECKMATE_SCORE ELSE 0)
    ELSE Loops("search", d, alpha, beta, update_move, moves)

\* alpha_beta_captures up to its loop; e is eval(game)
EnterCaptures(d, alpha, beta, e, moves) ==
    IF d = 0 THEN ReturnsAtOnce(e)
    ELSE IF e >= beta THEN ReturnsAtOnce(beta)
    ELSE IF moves = <<>> THEN ReturnsAtOnce(e)
    ELSE Loops("captures", d, IF e > alpha THEN e ELSE alpha, beta, FALSE, moves)

\* the call fn(d, alpha, beta, update_move) up to its loop
Enter(fn, d, alpha, beta, update_move) ==
    IF fn = "search" /\ d # 0
    THEN EnterSearch(d, alpha, beta, update_move, SortedLegalMoves(Game, search.ep_counts))
    ELSE EnterCaptures(IF fn = "search" THEN 8 ELSE d, alpha, beta, eval(Game),
                       CaptureMoves(Game, search.ep_counts))

\* a call starts: the one of best_moves, or the recursive one of the loop on
\* top of the stack
SearchEnter ==
    /\ pc = "enter"
    /\ IF frames = <<>>
       THEN Enter("search", MAX_DEPTH, -100000, 100000, TRUE)
       ELSE Enter(Top.fn, Top.depth - 1, -Top.beta, -Top.alpha, FALSE)
    /\ UNCHANGED <<gameVars, last_result, last_op, origin, fen_given, last_arg, play_game, running_game, depth, node_count, root, search>>

\* r is what make_move returned: a failure skips the move, a success is
\* followed by the recursive call
SearchMade(r) ==
    /\ SetGame(r.game)
    /\ pc' = CASE r.result = "Ok" -> "enter"
               [] r.result = "Err" -> "loop"
               [] OTHER -> "panic"
    /\ frames' = IF r.result = "Err" THEN [frames EXCEPT ![Len(frames)].i = @ + 1]
                 ELSE frames

\* the loop takes its next move
SearchMakeMove ==
    /\ pc = "loop"
    /\ Top.i <= Len(Top.moves)
    /\ SearchMade(make_move(Game, Top.moves[Top.i]))
    /\ UNCHANGED <<last_result, last_op, origin, fen_given, last_arg, play_game, running_game, ret, depth, node_count, root, search>>

\* the loop on top of the stack goes on with e, the negated value of its call
SearchGoesOn(f, e) ==
    /\ frames' = [frames EXCEPT ![Len(frames)].i = @ + 1,
                                ![Len(frames)].alpha = IF e > @ THEN e ELSE @]
    /\ pc' = "loop"
    /\ UNCHANGED ret

\* the counters and best_moves after a call of the loop f came back with e
SearchAfter(f, e) ==
    [search EXCEPT
        !.looked_at_positions = IF f.fn = "search" THEN @ + 1 ELSE @,
        !.skipped_positions = IF e >= f.beta THEN @ + 1 ELSE @,
        !.best_moves = IF f.fn = "search" /\ e < f.beta /\ f.update_move
                       THEN InsertBest(@, f.moves[f.i], e) ELSE @]

\* the return of the recursive call with a cutoff that hands back the score
\* instead of beta
SearchReturn_soft ==
    /\ pc = "return"
    /\ SetGame(unmake_move(Game))
    /\ search' = SearchAfter(Top, -ret)
    /\ IF -ret >= Top.beta THEN Returns(-ret) ELSE SearchGoesOn(Top, -ret)
    /\ UNCHANGED <<last_result, last_op, origin, fen_given, last_arg, play_game, running_game, depth, node_count, root>>

\* the recursive call came back: unmake_move, the beta cutoff, the alpha and
\* best_moves updates
SearchReturn ==
    /\ pc = "return"
    /\ SetGame(unmake_move(Game))
    /\ search' = SearchAfter(Top, -ret)
    /\ IF -ret >= Top.beta THEN Returns(Top.beta) ELSE SearchGoesOn(Top, -ret)
    /\ UNCHANGED <<last_result, last_op, origin, fen_given, last_arg, play_game, running_game, depth, node_count, root>>

\* the loop is over: the call returns alpha
SearchLoopEnd ==
    /\ pc = "loop"
    /\ Top.i > Len(Top.moves)
    /\ Returns(Top.alpha)
    /\ UNCHANGED <<gameVars, last_result, last_op, origin, fen_given, last_arg, play_game, running_game, depth, node_count, root, search>>

SearchNext ==
    \/ SearchStart
    \/ SearchEnter
    \/ SearchMakeMove
    \/ SearchReturn
    \/ SearchLoopEnd

SearchSpec == SearchInit /\ [][SearchNext]_vars

\* a step of best_moves can be taken: each action of SearchNext is enabled by
\* the position of the call alone
Running == pc \in {"idle", "enter", "loop", "return"}

\* best_moves runs on one thread from its call to its return, so a step that
\* can be taken is taken: weak fairness of SearchNext, with the enabling
\* condition of the steps between the call and the return written out as
\* Running
SearchLiveSpec ==
    /\ SearchInit
    /\ [][SearchNext]_vars
    /\ WF_vars(SearchStart)
    /\ WF_vars(SearchLoopEnd)
    /\ <>[]Running => []<><<TRUE>>_vars

----------------------------------------------------------------------------
(* board.rs: the accessors of Board called with Positions made by           *)
(* Position::new_unchecked(x, y).  board_index is y * 8 + x, and an access  *)
(* panics when the array has no slot of that index.                         *)

\* Position::board_index of the unchecked Position (x, y)
board_index(x, y) == y * 8 + x

\* self.0.get(index) is Some
HasSlot(index) == index \in 0 .. 63

\* Board::place_piece: the outcome and the Board afterwards
PlacePieceUnchecked(b, piece, x, y) ==
    IF HasSlot(board_index(x, y))
    THEN [status |-> "Ok", board |-> place_piece(b, piece, board_index(x, y)), value |-> NoPiece]
    ELSE [status |-> "Panic", board |-> b, value |-> NoPiece]

\* Board::piece_at: the outcome and the piece read
PieceAtUnchecked(b, x, y) ==
    IF HasSlot(board_index(x, y))
    THEN [status |-> "Ok", board |-> b, value |-> b[board_index(x, y)]]
    ELSE [status |-> "Panic", board |-> b, value |-> NoPiece]

\* *Board::piece_at_mut(position) = piece, as Board::make_move writes it
PieceAtMutUnchecked(b, piece, x, y) ==
    IF HasSlot(board_index(x, y))
    THEN [status |-> "Ok", board |-> [b EXCEPT ![board_index(x, y)] = piece], value |-> NoPiece]
    ELSE [status |-> "Panic", board |-> b, value |-> NoPiece]

\* Board::remove_piece: the outcome, the Board afterwards and the piece taken
RemovePieceUnchecked(b, x, y) ==
    IF HasSlot(board_index(x, y))
    THEN [status |-> "Ok", board |-> remove_piece(b, board_index(x, y)),
          value |-> b[board_index(x, y)]]
    ELSE [status |-> "Panic", board |-> b, value |-> NoPiece]

\* the files and ranks the callers pass: the corners of the board and the
\* first two values past them
Coords == {0, 7, 8, 9}

\* the pieces the callers place
PlacedPieces == {Piece("Pawn", "White"), Piece("King", "Black")}

\* a Board of its own, outside of any Game
BoardInit ==
    /\ board = BoardDefault
    /\ current_turn = "None"
    /\ move_stack = <<>>
    /\ bitboards = GameBitBoardsDefault
    /\ white_castle_rights = "None"
    /\ black_castle_rights = "None"
    /\ en_passent_field = NoPos
    /\ origin = "Board"
    /\ fen_given = <<>>
    /\ last_op = "new"
    /\ last_result = "Ok"
    /\ Idle

\* what an accessor leaves behind; a panic ends the program
BoardOutcome(op, x, y, out) ==
    /\ last_op' = op
    /\ last_arg' = <<x, y>>
    /\ last_result' = out.status
    /\ board' = out.board
    /\ ret' = out.value
    /\ pc' = IF out.status = "Panic" THEN "panicked" ELSE pc
    /\ UNCHANGED <<current_turn, move_stack, bitboards, white_castle_rights,
                   black_castle_rights, en_passent_field, origin, fen_given,
                   frames, depth, node_count, root, search, play_game, running_game>>

BoardPlacePiece ==
    /\ pc = "idle"
    /\ \E piece \in PlacedPieces : \E x \in Coords : \E y \in Coords :
          BoardOutcome("place_piece", x, y, PlacePieceUnchecked(board, piece, x, y))

BoardPieceAt ==
    /\ pc = "idle"
    /\ \E x \in Coords : \E y \in Coords :
          BoardOutcome("piece_at", x, y, PieceAtUnchecked(board, x, y))

BoardPieceAtMut ==
    /\ pc = "idle"
    /\ \E piece \in PlacedPieces \cup {NoPiece} : \E x \in Coords : \E y \in Coords :
          BoardOutcome("piece_at_mut", x, y, PieceAtMutUnchecked(board, piece, x, y))

BoardRemovePiece ==
    /\ pc = "idle"
    /\ \E x \in Coords : \E y \in Coords :
          BoardOutcome("remove_piece", x, y, RemovePieceUnchecked(board, x, y))

BoardNext ==
    \/ BoardPlacePiece
    \/ BoardPieceAt
    \/ BoardPieceAtMut
    \/ BoardRemovePiece

BoardSpec == BoardInit /\ [][BoardNext]_vars

----------------------------------------------------------------------------
(* moves.rs: the text of a Move.  A text is the sequence of its characters;  *)
(* str::len and the slices &s[a..b] count bytes of its UTF-8 encoding, and   *)
(* a slice that does not begin and end between two characters panics.        *)

\* char::len_utf8 for the characters the callers use
len_utf8(c) == IF c \in {"é"} \cup NumericNotDigit THEN 2 ELSE 1

\* the byte offset at which character i of text begins (i = Len + 1: the end)
RECURSIVE ByteOffset(_, _)
ByteOffset(text, i) == IF i <= 1 THEN 0 ELSE ByteOffset(text, i - 1) + len_utf8(text[i - 1])

\* str::len
ByteLen(text) == ByteOffset(text, Len(text) + 1)

\* str::is_char_boundary
is_char_boundary(text, at) == \E i \in 1 .. Len(text) + 1 : ByteOffset(text, i) = at

\* &s[a..b] panics
SlicePanics(text, a, b) == ~is_char_boundary(text, a) \/ ~is_char_boundary(text, b)

\* &s[a..b]: the characters that begin at the byte offsets a .. b - 1
Slice(text, a, b) ==
    [k \in 1 .. Cardinality({i \in 1 .. Len(text) : ByteOffset(text, i) \in a .. b - 1}) |->
        text[LowestOf({i \in 1 .. Len(text) : ByteOffset(text, i) \in a .. b - 1}) + k - 1]]

PromotionTypes == {"Queen", "Rook", "Bishop", "Knight"}

\* Display for PromotionType
PromotionToString(pt) ==
    CASE pt = "Queen" -> <<"q">> [] pt = "Rook" -> <<"r">>
      [] pt = "Bishop" -> <<"b">> [] pt = "Knight" -> <<"n">>

\* PromotionType::from_str: "None" stands for the failure value
PromotionFromStr(text) ==
    CASE text \in {<<"Q">>, <<"q">>} -> "Queen"
      [] text \in {<<"R">>, <<"r">>} -> "Rook"
      [] text \in {<<"B">>, <<"b">>} -> "Bishop"
      [] text \in {<<"N">>, <<"n">>} -> "Knight"
      [] OTHER -> "None"

\* Display for Move
MoveToString(mov) ==
    PositionToString(mov.from) \o PositionToString(mov.to)
        \o (IF mov.move_type.tag \in {"PromotionQuite", "PromotionCapture"}
            THEN PromotionToString(mov.move_type.promotion) ELSE <<>>)

\* the absent Move of a failed or panicked parse
NoMove == [from |-> NoPos, to |-> NoPos, move_type |-> "None"]

\* Move::from_str past the match on s.len(): the two squares
MoveFromSquares(text, move_type) ==
    IF SlicePanics(text, 0, 2) THEN [status |-> "Panic", mov |-> NoMove]
    ELSE IF PositionFromStr(Slice(text, 0, 2)) = NoPos THEN [status |-> "Err", mov |-> NoMove]
    ELSE IF SlicePanics(text, 2, 4) THEN [status |-> "Panic", mov |-> NoMove]
    ELSE IF PositionFromStr(Slice(text, 2, 4)) = NoPos THEN [status |-> "Err", mov |-> NoMove]
    ELSE [status |-> "Ok",
          mov |-> Move(PositionFromStr(Slice(text, 0, 2)), PositionFromStr(Slice(text, 2, 4)),
                       move_type)]

\* Move::from_str: "Ok" with the Move, "Err", or "Panic"
MoveFromStr(text) ==
    IF ByteLen(text) = 4 THEN MoveFromSquares(text, Quiet)
    ELSE IF ByteLen(text) = 5
         THEN IF SlicePanics(text, 4, 5) THEN [status |-> "Panic", mov |-> NoMove]
              ELSE IF PromotionFromStr(Slice(text, 4, 5)) = "None"
                   THEN [status |-> "Err", mov |-> NoMove]
              ELSE MoveFromSquares(text, PromotionQuite(PromotionFromStr(Slice(text, 4, 5))))
    ELSE [status |-> "Err", mov |-> NoMove]

\* the squares of the moves the callers format: e2, e7, e8
TextSquares == {12, 52, 60}

\* the move types the callers format
TextMoveTypes ==
    {Quiet, Capture("Pawn"), EnPassantCapture, Castle}
        \cup {PromotionQuite(pt) : pt \in PromotionTypes}
        \cup {PromotionCapture(pt, "Rook") : pt \in PromotionTypes}

\* the texts of one square, and texts that are none
SquareTexts ==
    {<<"e", "2">>, <<"e", "7">>, <<"e", "8">>,
     <<"i", "1">>, <<"e", "9">>, <<"e">>, <<"e", "é">>, <<"é", "2">>}

\* what follows the two squares
SuffixTexts ==
    {<<>>, <<"q">>, <<"Q">>, <<"R">>, <<"b">>, <<"n">>, <<"j">>, <<"é">>}

MoveTexts == {f \o t \o x : f \in SquareTexts, t \in SquareTexts, x \in SuffixTexts}

\* what formatting or parsing a Move leaves behind
TextOutcome(op, arg, status, returned) ==
    /\ last_op' = op
    /\ last_arg' = arg
    /\ last_result' = status
    /\ ret' = returned
    /\ pc' = IF status = "Panic" THEN "panicked" ELSE pc
    /\ UNCHANGED <<gameVars, origin, fen_given, frames, depth, node_count, root,
                   search, play_game, running_game>>

\* a caller formats a Move
MoveFormat ==
    /\ pc = "idle"
    /\ \E from \in TextSquares : \E to \in TextSquares : \E mt \in TextMoveTypes :
          TextOutcome("to_string", Move(from, to, mt), "Ok", MoveToString(Move(from, to, mt)))

\* a caller parses a text
MoveParse ==
    /\ pc = "idle"
    /\ \E text \in MoveTexts :
          TextOutcome("from_str", text, MoveFromStr(text).status, MoveFromStr(text).mov)

MoveTextNext ==
    \/ MoveFormat
    \/ MoveParse

MoveTextSpec == BoardInit /\ [][MoveTextNext]_vars

----------------------------------------------------------------------------
(* play_game.rs: PlayGame<State>.  The field state is the type parameter    *)
(* (WaitingForPlayers, AllConnected, Playing); white and black are the       *)
(* players the value holds, "None" for an empty Option.  connect_player and  *)
(* start take self by value: the PlayGame they were called on is gone        *)
(* afterwards, and only what the call returns is left.                       *)

\* PlayGame::new
PlayGameNew == [state |-> "WaitingForPlayers", white |-> "None", black |-> "None"]

\* connect_player without the test for a colour that is attached already
connect_player_replacing(self, player, color) ==
    IF color = "White"
    THEN IF self.black # "None"
         THEN [result |-> "Ready",
               play_game |-> [state |-> "AllConnected", white |-> player,
                              black |-> self.black]]
         ELSE [result |-> "Waiting",
               play_game |-> [state |-> "WaitingForPlayers", white |-> player,
                              black |-> "None"]]
    ELSE IF self.white # "None"
         THEN [result |-> "Ready",
               play_game |-> [state |-> "AllConnected", white |-> self.white,
                              black |-> player]]
         ELSE [result |-> "Waiting",
               play_game |-> [state |-> "WaitingForPlayers", white |-> "None",
                              black |-> player]]

\* PlayGame<WaitingForPlayers>::connect_player: the ConnectResult and the
\* PlayGame inside it
connect_player(self, player, color) ==
    IF color = "White"
    THEN IF self.white # "None"
         THEN [result |-> "AlreadyConnected", play_game |-> NoPlayGame]
         ELSE IF self.black # "None"
              THEN [result |-> "Ready",
                    play_game |-> [state |-> "AllConnected", white |-> player,
                                   black |-> self.black]]
              ELSE [result |-> "Waiting",
                    play_game |-> [state |-> "WaitingForPlayers", white |-> player,
                                   black |-> "None"]]
    ELSE IF self.black # "None"
         THEN [result |-> "AlreadyConnected", play_game |-> NoPlayGame]
         ELSE IF self.white # "None"
              THEN [result |-> "Ready",
                    play_game |-> [state |-> "AllConnected", white |-> self.white,
                                   black |-> player]]
              ELSE [result |-> "Waiting",
                    play_game |-> [state |-> "WaitingForPlayers", white |-> "None",
                                   black |-> player]]

\* PlayGame<AllConnected>::start
start(self) == [state |-> "Playing", white |-> self.white, black |-> self.black]

\* the player self holds for color
PlayerOf(self, color) == IF color = "White" THEN self.white ELSE self.black

\* the players a caller attaches
Players == {"CliPlayer", "BotBasic", "BotRandom"}

\* the positions a caller starts a game from
PlayOrigins == {"Promotion", "EnPassant", "RookMate", "Stalemate", "InCheck"}

\* the turns a caller lets a game run
PlayPly == 2

TRY_COUNTER == 10

\* the numbers of times a player at the terminal fails to name a legal move
\* before it names one; TRY_COUNTER and more are never followed by a move
Refusals == {0, 1, TRY_COUNTER - 1, TRY_COUNTER}

\* CliPlayer answers None when the move typed is not among the legal moves;
\* BotRandom and BotBasic pick among the legal moves, which are not empty
\* when wait_for_move asks
RefusalsOf(player) == IF player = "CliPlayer" THEN Refusals ELSE {0}

\* wait_for_move that asks the player of the side not to move
wait_for_move_other_player(self, g, refusals, mv) ==
    LET color == opposite(g.current_turn)
        asked == IF refusals < TRY_COUNTER THEN refusals + 1 ELSE TRY_COUNTER
    IN  IF all_legal_moves(g, g.current_turn) = <<>>
        THEN [result |-> "Checkmate", game |-> g, consulted |-> <<>>, answer |-> "None"]
        ELSE IF refusals >= TRY_COUNTER
        THEN [result |-> "PlayerNotMakingMoves", game |-> g,
              consulted |-> [i \in 1 .. asked |-> color], answer |-> "None"]
        ELSE [result |-> IF make_move(g, mv).result = "Ok" THEN "InProgress" ELSE "Panic",
              game |-> make_move(g, mv).game,
              consulted |-> [i \in 1 .. asked |-> color], answer |-> mv]

\* wait_for_move on the Game g of a PlayGame<Playing>, with a player that
\* answers None refusals times and then mv: the TurnResult ("Panic" for the
\* expect on make_move), the Game afterwards, the colours of the players
\* asked in order, and the answer that ended the loop
wait_for_move(self, g, refusals, mv) ==
    LET color == g.current_turn
        asked == IF refusals < TRY_COUNTER THEN refusals + 1 ELSE TRY_COUNTER
    IN  IF all_legal_moves(g, g.current_turn) = <<>>
        THEN [result |-> "Checkmate", game |-> g, consulted |-> <<>>, answer |-> "None"]
        ELSE IF refusals >= TRY_COUNTER
        THEN [result |-> "PlayerNotMakingMoves", game |-> g,
              consulted |-> [i \in 1 .. asked |-> color], answer |-> "None"]
        ELSE [result |-> IF make_move(g, mv).result = "Ok" THEN "InProgress" ELSE "Panic",
              game |-> make_move(g, mv).game,
              consulted |-> [i \in 1 .. asked |-> color], answer |-> mv]

\* the outcome r of a wait_for_move call becomes the state
TurnOutcome(r) ==
    /\ SetGame(r.game)
    /\ last_result' = r.result
    /\ last_arg' = <<r.consulted, r.answer>>
    /\ last_op' = "wait_for_move"
    /\ pc' = IF r.result = "Panic" THEN "panicked" ELSE pc

\* the answers the player of the side to move can give: every legal move,
\* and no move at all when there is none
AnswersOf(moves) == IF moves = <<>> THEN {"None"} ELSE Range(moves)

\* a caller builds a PlayGame
PlayNew ==
    /\ pc = "idle"
    /\ play_game' = PlayGameNew
    /\ last_op' = "new"
    /\ last_arg' = <<>>
    /\ last_result' = "Ok"
    /\ UNCHANGED <<gameVars, origin, fen_given, pc, frames, ret, depth, node_count,
                   root, search, running_game>>

\* a caller attaches a player; the method exists on PlayGame<WaitingForPlayers>
\* only
PlayConnect ==
    /\ pc = "idle"
    /\ play_game.state = "WaitingForPlayers"
    /\ \E player \in Players : \E color \in Colors :
          /\ play_game' = connect_player(play_game, player, color).play_game
          /\ last_result' = connect_player(play_game, player, color).result
          /\ last_op' = "connect_player"
          /\ last_arg' = <<player, color>>
    /\ UNCHANGED <<gameVars, origin, fen_given, pc, frames, ret, depth, node_count,
                   root, search, running_game>>

\* a caller starts the game; the method exists on PlayGame<AllConnected> only
PlayStart ==
    /\ pc = "idle"
    /\ play_game.state = "AllConnected"
    /\ \E o \in PlayOrigins :
          /\ SetGame(parse_game(FenOf(o)).game)
          /\ origin' = o
          /\ fen_given' = FenOf(o)
    /\ play_game' = start(play_game)
    /\ last_op' = "start"
    /\ last_arg' = <<>>
    /\ last_result' = "Ok"
    /\ UNCHANGED <<pc, frames, ret, depth, node_count, root, search, running_game>>

\* a caller asks for the next turn; the method exists on PlayGame<Playing> only
PlayWaitForMove ==
    /\ pc = "idle"
    /\ play_game.state = "Playing"
    /\ Len(move_stack) < PlayPly
    /\ \E refusals \in RefusalsOf(PlayerOf(play_game, current_turn)) :
          \E mv \in AnswersOf(all_legal_moves(Game, current_turn)) :
              TurnOutcome(wait_for_move(play_game, Game, refusals, mv))
    /\ UNCHANGED <<origin, fen_given, frames, ret, depth, node_count, root, search,
                   play_game, running_game>>

PlayNext ==
    \/ PlayNew
    \/ PlayConnect
    \/ PlayStart
    \/ PlayWaitForMove

PlaySpec == BoardInit /\ [][PlayNext]_vars

-----------------------------------------------------------------------------
(* lichess/src/server.rs: RunningGame.  tx holds the moves sent to the       *)
(* LichessPlayer and not yet received by it.                                 *)

\* the parse of every word, in order
ServerMoves(words) == [i \in 1 .. Len(words) |-> MoveFromStr(words[i])]

\* receive_lichess_move on the move list moves of a GameState: "Panic" for
\* the three expect calls (the channel's receiver lives as long as the game)
receive_lichess_move(self, moves) ==
    LET server_moves == ServerMoves(split_whitespace(moves))
        move_color == IF Len(server_moves) % 2 = 0 THEN "Black" ELSE "White"
    IN  IF \E i \in 1 .. Len(server_moves) : server_moves[i].status # "Ok"
        THEN [status |-> "Panic", running_game |-> self]
        ELSE IF move_color # self.bot_color
             THEN IF server_moves = <<>>
                  THEN [status |-> "Panic", running_game |-> self]
                  ELSE [status |-> "Ok",
                        running_game |->
                            [self EXCEPT !.tx = Append(@, server_moves[Len(server_moves)].mov)]]
             ELSE [status |-> "Ok", running_game |-> self]

\* the moves the server reports: e2e4, e7e5, and a promotion
ReportedTexts ==
    {<<"e", "2", "e", "4">>, <<"e", "7", "e", "5">>, <<"e", "7", "e", "8", "q">>}

MaxReported == 2

MaxInFlight == 2

\* the move lists of at most n moves, each list one text with the moves
\* separated by one space
RECURSIVE MoveLists(_)
MoveLists(n) ==
    IF n = 0 THEN {<<>>}
    ELSE MoveLists(n - 1)
         \cup {IF l = <<>> THEN t ELSE l \o <<" ">> \o t :
                  l \in MoveLists(n - 1), t \in ReportedTexts}

\* start_game: a game begins with the bot playing bot_color
StartGame ==
    /\ pc = "idle"
    /\ \E bot_color \in Colors :
          /\ running_game' = [bot_color |-> bot_color, tx |-> <<>>]
          /\ last_arg' = <<bot_color>>
    /\ last_op' = "start_game"
    /\ last_result' = "Ok"
    /\ UNCHANGED <<gameVars, origin, fen_given, pc, frames, ret, depth, node_count,
                   root, search, play_game>>

\* the server loop hands a GameState of a running game to receive_lichess_move
ReceiveLichessMove ==
    /\ pc = "idle"
    /\ running_game # NoRunningGame
    /\ Len(running_game.tx) < MaxInFlight
    /\ \E moves \in MoveLists(MaxReported) :
          /\ running_game' = receive_lichess_move(running_game, moves).running_game
          /\ last_result' = receive_lichess_move(running_game, moves).status
          /\ pc' = IF receive_lichess_move(running_game, moves).status = "Panic"
                   THEN "panicked" ELSE pc
          /\ last_arg' = moves
    /\ last_op' = "receive_lichess_move"
    /\ UNCHANGED <<gameVars, origin, fen_given, frames, ret, depth, node_count,
                   root, search, play_game>>

\* LichessPlayer::make_move takes the next move off the channel
LichessRecv ==
    /\ pc = "idle"
    /\ running_game.tx # <<>>
    /\ running_game' = [running_game EXCEPT !.tx = Tail(@)]
    /\ last_op' = "recv"
    /\ last_arg' = <<>>
    /\ last_result' = "Ok"
    /\ ret' = Head(running_game.tx)
    /\ UNCHANGED <<gameVars, origin, fen_given, pc, frames, depth, node_count,
                   root, search, play_game>>

RelayNext ==
    \/ StartGame
    \/ ReceiveLichessMove
    \/ LichessRecv

RelaySpec == BoardInit /\ [][RelayNext]_vars

----------------------------------------------------------------------------
(* fen.rs: callers of parse_game.  The records are those of the repository's *)
(* tests, cut short or spoilt in one place: one rank of an empty board, the  *)
(* number of ranks, or one of the parts after the placement.                 *)

RECURSIVE JoinRanks(_)
JoinRanks(ranks) ==
    IF Len(ranks) = 0 THEN <<>>
    ELSE IF Len(ranks) = 1 THEN ranks[1]
    ELSE ranks[1] \o <<"/">> \o JoinRanks(Tail(ranks))

\* n empty ranks with rank number at (from the top) replaced by spoilt
Placement(n, spoilt, at) == JoinRanks([i \in 1 .. n |-> IF i = at THEN spoilt ELSE <<"8">>])

\* the parts after the placement, as fen.rs:203 and fen.rs:211 have them
RestOfRecord == << <<"w">>, <<"K", "Q", "k", "q">>, <<"-">>, <<"0">>, <<"1">> >>

\* ranks whose run lengths and pieces go past the eighth column
OverflowingRanks ==
    {<<"9">>, <<"8", "1">>, <<"4", "5">>, <<"8", "p">>, <<"4", "4", "p">>,
     <<"p", "p", "p", "p", "p", "p", "p", "p", "1">>,
     <<"r", "n", "b", "q", "k", "3", "r">>}

\* ranks with a letter that names no piece
UnknownPieceRanks == {<<"a", "b", "c", "5">>, <<"7", "x">>, <<"x", "7">>, <<"3", "Z", "4">>}

\* ranks with a numeric character that is no decimal digit
NotDigitRanks == {<<"¾">>, <<"7", "²">>}

\* placements with more than seven rank separators
TooManySeparators ==
    {Placement(9, <<"8">>, 1), Placement(10, <<"8">>, 1), Placement(8, <<"8">>, 1) \o <<"/">>,
     Placement(9, <<"7", "p">>, 9)}

BadSides == {<<"x">>, <<"-">>, <<"w", "b">>, <<"1">>}

BadRights == {<<"K", "Q", "x">>, <<"A">>, <<"0">>}

BadTargets == {<<"i", "3">>, <<"a", "9">>, <<"a", "0">>, <<"e">>, <<"e", "3", "3">>, <<"3", "e">>}

\* the ranks, counted from the top, that are spoilt
SpoiltAt == {1, 4, 8}

\* the records with a rank that does not parse
BadRankRecords ==
    {<<Placement(8, spoilt, at)>> \o RestOfRecord :
        spoilt \in OverflowingRanks \cup UnknownPieceRanks \cup NotDigitRanks,
        at \in SpoiltAt}
      \cup {<<placement>> \o RestOfRecord : placement \in TooManySeparators}

\* the records with a side, rights or en-passant part that is no such token
BadTokenRecords ==
    {<<FenStart[1], side, FenStart[3], FenStart[4]>> : side \in BadSides}
      \cup {<<FenStart[1], FenStart[2], rights, FenStart[4]>> : rights \in BadRights}
      \cup {<<FenStart[1], FenStart[2], FenStart[3], target>> : target \in BadTargets}

MalformedRecords == BadRankRecords \cup BadTokenRecords \cup {<<>>}

\* the origins whose records the callers hand over whole or cut short
ParseOrigins == {"Start", "EnPassant"}

\* what a call of parse_game leaves behind: the Game it returns, if any
ParseOutcome(fen, parsed) ==
    /\ fen_given' = fen
    /\ last_op' = "parse_game"
    /\ last_result' = parsed.status
    /\ IF parsed.status = "Ok" THEN SetGame(parsed.game) ELSE UNCHANGED gameVars
    /\ UNCHANGED callVars

ParseInit ==
    /\ InitGame("Start")
    /\ Idle

\* a caller parses a record of the tests, or its first parts only
ParseRecord ==
    /\ pc = "idle"
    /\ \E o \in ParseOrigins : \E parts \in 1 .. 4 : \E overflow_checks \in BOOLEAN :
          /\ ParseOutcome(SubSeq(FenOf(o), 1, parts),
                          parse_game_built(SubSeq(FenOf(o), 1, parts), overflow_checks))
          /\ origin' = o

\* a caller parses a malformed record
ParseMalformed ==
    /\ pc = "idle"
    /\ \E fen \in MalformedRecords : \E overflow_checks \in BOOLEAN :
          ParseOutcome(fen, parse_game_built(fen, overflow_checks))
    /\ UNCHANGED origin

ParseNext ==
    \/ ParseRecord
    \/ ParseMalformed

ParseSpec == ParseInit /\ [][ParseNext]_vars

----------------------------------------------------------------------------
(* Properties of Game, make_move, unmake_move and the legality filter *)

\* the pin mask the piece on p stands in, {} when it stands in none
PinMaskOf(p) == FirstContaining(pinned(bitboards, board[p].color), p)

\* each side has a king on the board
KingsOnBoard == \A c \in Colors : Of(board, "King", c) # {}

\* the squares holding a piece of color c other than its king
NonKingSquares(c) == {p \in pieces(bitboards, c) : board[p].kind # "King"}

\* C1: Reversibility.  In every Game that can be constructed (by parsing a
\* position record or by earlier make_move and unmake_move calls), for every
\* move m the generator reports as legal for the side to move, make_move(m)
\* followed by unmake_move() yields a Game equal to the one before in board,
\* side to move, castling rights, en-passant target, move stack and cache.
C1_Reversibility ==
    KingsOnBoard =>
        \A mov \in Range(all_legal_moves(Game, current_turn)) :
            unmake_move(make_move(Game, mov).game) = Game

\* C2: Legality soundness.  In every state reached from the standard starting
\* position by moves of all_legal_moves(side to move), after make_move the
\* king of the side that just moved is not in the opponent's attack set.
C2_LegalitySound ==
    (origin = "Start" /\ last_op = "make_move" /\ last_result = "Ok")
        => king(bitboards, opposite(current_turn)) \notin attacks(bitboards, current_turn)

\* the move types make_move is called with on an origin it must refuse
RefusedMoveTypes(p) ==
    {Quiet, Capture("Pawn"), EnPassantCapture, Castle, DoublePawnPush(p),
     PromotionQuite("Queen"), PromotionCapture("Knight", "Rook")}

\* the origins make_move must refuse: empty, or of the side not to move
RefusedOrigins == {p \in Squares : board[p] = NoPiece \/ board[p].color # current_turn}

\* C3: make_move returns a failure result when there is no piece at the
\* move's origin or the piece there belongs to the side not to move, and then
\* every field of the Game is unchanged.
C3_InvalidMoveRefused ==
    \A from \in RefusedOrigins :
        \A to \in {(from + 8) % 64, (from + 63) % 64, from} :
            \A mt \in RefusedMoveTypes(to) :
                make_move(Game, Move(from, to, mt)) = [result |-> "Err", game |-> Game]

\* make_move has been called with a refused origin and has returned the
\* failure, in a Game that has an en-passant target
C3_Witness ==
    /\ last_op = "make_move"
    /\ last_result = "Err"
    /\ en_passent_field # NoPos

\* C4: unmake_move() on a Game whose undo stack is empty is a no-op: board,
\* side to move, castling rights, en-passant target, move stack and bitboard
\* cache are all unchanged.
C4_UnmakeOnEmptyStack ==
    [][(last_op' = "unmake_move" /\ move_stack = <<>>) => UNCHANGED gameVars]_vars

\* unmake_move() has been called on an empty undo stack
C4_Witness ==
    /\ last_op = "unmake_move"
    /\ last_result = "No moves to unmake."
    /\ move_stack = <<>>

\* C7: Check evasion.  Where a side has exactly one check-block mask, every
\* legal move of each of its non-king pieces, pinned ones included, has its
\* destination inside that mask.
C7_CheckEvasion ==
    \A c \in Colors :
        (KingsOnBoard /\ Len(blockable_checks(bitboards, c)) = 1) =>
            \A p \in NonKingSquares(c) :
                \A mov \in Range(legal_moves(Game, p)) :
                    mov.to \in blockable_checks(bitboards, c)[1]

\* C8: Double check.  Where a side has more than one check-block entry,
\* legal_moves returns no move for any of its non-king pieces, pinned or not.
C8_DoubleCheck ==
    \A c \in Colors :
        (KingsOnBoard /\ Len(blockable_checks(bitboards, c)) > 1) =>
            \A p \in NonKingSquares(c) : legal_moves(Game, p) = <<>>

\* the mask m of a pin of the piece on p holds no king square of that side,
\* one enemy rook, bishop or queen, and besides it and p empty squares only
PinLine(p, m) ==
    /\ king(bitboards, board[p].color) \notin m
    /\ \E s \in m :
          /\ board[s].color = opposite(board[p].color)
          /\ board[s].kind \in {"Rook", "Bishop", "Queen"}
          /\ \A q \in m \ {s, p} : board[q] = NoPiece

\* C9: Pin rule.  If the origin of a piece lies in one of its side's pin
\* masks, every legal move of the piece has its destination inside that same
\* mask (the squares from next to the king up to and including the pinning
\* slider), so a pinned piece with no pseudo-legal destination on the pin
\* line has no legal move.
C9_PinRule ==
    \A p \in Squares :
        (board[p] # NoPiece /\ PinMaskOf(p) # {}) =>
            /\ PinLine(p, PinMaskOf(p))
            /\ \A mov \in Range(legal_moves(Game, p)) : mov.to \in PinMaskOf(p)
            /\ (\A mov \in Range(pseudo_legal_moves(Game, p)) : mov.to \notin PinMaskOf(p))
                   => legal_moves(Game, p) = <<>>

\* a pinned piece keeps the pseudo-legal moves on its pin line and loses
\* the others
C9_Witness ==
    \E p \in Squares :
        /\ board[p] # NoPiece /\ PinMaskOf(p) # {}
        /\ legal_moves(Game, p) # <<>>
        /\ Len(legal_moves(Game, p)) < Len(pseudo_legal_moves(Game, p))

\* C10 as stated: the legality filter rejects every move whose moving piece
\* does not belong to the side to move, so legal_moves(position) is empty for
\* a square occupied by a piece of the side that is not to move.
C10_SideToMoveFilter ==
    \A p \in Squares :
        (board[p] # NoPiece /\ board[p].color # current_turn)
            => legal_moves(Game, p) = <<>>

\* the Game with the other side to move
OtherToMove == [Game EXCEPT !.current_turn = opposite(current_turn)]

\* C10 as the code has it: the legality filter never reads the side to move;
\* legal_moves(position) is the same whichever side is to move, and
\* all_legal_moves(color) holds the moves of the pieces of color alone.
C10_NoSideToMoveFilter ==
    /\ \A p \in Squares : legal_moves(Game, p) = legal_moves(OtherToMove, p)
    /\ \A c \in Colors :
          \A mov \in Range(all_legal_moves(Game, c)) : board[mov.from].color = c

\* a piece of the side that is not to move has a legal move
C10_Witness ==
    \E p \in Squares :
        /\ board[p] # NoPiece
        /\ board[p].color # current_turn
        /\ legal_moves(Game, p) # <<>>

----------------------------------------------------------------------------
(* Properties of perft and of the search *)

\* C6: perft from the standard starting position never fails to make a move
\* and counts 20 move sequences at depth 1, 400 at depth 2 and 8902 at
\* depth 3
C6_PerftCounts ==
    /\ pc # "panic"
    /\ pc = "done" =>
          node_count = CASE depth = 1 -> 20
                         [] depth = 2 -> 400
                         [] depth = 3 -> 8902

\* C6: a perft run of depth 3 has finished with 8902 nodes
C6_Witness ==
    /\ pc = "done"
    /\ depth = 3
    /\ node_count = 8902
    /\ IsGame(root)

\* C5: when best_move returns, the Game has the board, side to move,
\* castling rights, en-passant target and move-stack length it was passed in
\* with
C5_SearchRestoresGame ==
    pc = "searched" =>
        /\ board = root.board
        /\ current_turn = root.current_turn
        /\ white_castle_rights = root.white_castle_rights
        /\ black_castle_rights = root.black_castle_rights
        /\ en_passent_field = root.en_passent_field
        /\ Len(move_stack) = Len(root.move_stack)

----------------------------------------------------------------------------
(* Properties of the legality filter: king moves, castling, en passant *)

\* the Game with the piece on q handed to the other side
Recolored(q) ==
    [Game EXCEPT !.board = [board EXCEPT ![q] = Piece(board[q].kind, opposite(board[q].color))]]

\* the piece on q is defended: another piece of its side could take on q if
\* the piece there were the enemy's
Defended(q) ==
    /\ board[q] # NoPiece
    /\ \E r \in Squares \ {q} :
          /\ board[r] # NoPiece
          /\ board[r].color = board[q].color
          /\ \E m \in Range(pseudo_legal_moves(Recolored(q), r)) : m.to = q

\* the Game with the square k emptied
Emptied(k) == [Game EXCEPT !.board = [board EXCEPT ![k] = NoPiece]]

\* the rook, bishop or queen on s gives check to the king on k
SliderChecks(s, k) ==
    /\ board[k].kind = "King"
    /\ board[s].kind \in {"Rook", "Bishop", "Queen"}
    /\ board[s].color = opposite(board[k].color)
    /\ \E m \in Range(pseudo_legal_moves(Game, s)) : m.to = k

\* C11: King safety.  No legal king move (quiet, capture or castle, in check
\* or not) has its destination in the opponent's attack set; the attack set
\* holds the squares of the opponent's defended pieces and the squares a
\* checking slider reaches behind the king.
C11_KingSafety ==
    /\ \A k \in Squares :
          board[k].kind = "King" =>
              \A mov \in Range(legal_moves(Game, k)) :
                  mov.to \notin attacks(bitboards, opposite(board[k].color))
    /\ \A q \in Squares :
          Defended(q) => q \in attacks(bitboards, board[q].color)
    /\ \A k \in Squares : \A s \in Squares :
          SliderChecks(s, k) =>
              \A m \in Range(pseudo_legal_moves(Emptied(k), s)) :
                  m.to \in attacks(bitboards, board[s].color)

\* C11: a king in check from a rook on its rank, with a free square behind
\* it and a defended enemy pawn next to it, has legal moves but neither of
\* those two
C11_Witness ==
    \E k \in Squares : \E s \in Squares :
        /\ SliderChecks(s, k)
        /\ board[s].kind = "Rook" /\ rank(s) = rank(k) /\ file(s) < file(k)
        /\ offset(k, 1, 0) # NoPos
        /\ board[offset(k, 1, 0)] = NoPiece
        /\ \E q \in Squares :
              /\ Defended(q) /\ board[q].color = board[s].color
              /\ \E m \in Range(pseudo_legal_moves(Game, k)) : m.to = q
              /\ \A m \in Range(legal_moves(Game, k)) : m.to \notin {q, offset(k, 1, 0)}
        /\ legal_moves(Game, k) # <<>>

\* the legal castle moves of the king on k
LegalCastles(k) ==
    {mov \in Range(legal_moves(Game, k)) : mov.move_type.tag = "Castle"}

\* the start, transit and destination squares of the king in the castle mov
KingPath(mov) ==
    {mov.from, (mov.from + mov.to) \div 2, mov.to}

\* C12: Castling legality.  A castle move is legal only if the side holds the
\* right for its wing (king side for file g, queen side for file c) and none
\* of the king's start, transit and destination squares is in the opponent's
\* attack set; without castling rights no castle move is legal.
C12_CastlingLegality ==
    \A k \in Squares :
        board[k].kind = "King" =>
            /\ \A mov \in LegalCastles(k) :
                  /\ file(mov.to) \in {2, 6}
                  /\ file(mov.to) = 6 => king_side(castle_rights(Game, board[k].color))
                  /\ file(mov.to) = 2 => queen_side(castle_rights(Game, board[k].color))
                  /\ KingPath(mov) \cap attacks(bitboards, opposite(board[k].color)) = {}
            /\ castle_rights(Game, board[k].color) = "None" => LegalCastles(k) = {}

\* C12: a king with both rights whose queen-side castle is legal and whose
\* king-side castle, through an attacked square, is not
C12_Witness ==
    \E k \in Squares :
        /\ board[k].kind = "King"
        /\ castle_rights(Game, board[k].color) = "Both"
        /\ {file(mov.to) : mov \in LegalCastles(k)} = {2}
        /\ \E mov \in Range(pseudo_legal_moves(Game, k)) :
              /\ mov.move_type.tag = "Castle" /\ file(mov.to) = 6
              /\ KingPath(mov) \cap attacks(bitboards, opposite(board[k].color)) # {}

\* the Game is the one parse_game returned for the record o
Parsed(o) == origin = o /\ last_op = "new"

\* the square e1
E1 == new_unchecked(4, 0)

\* the destinations of the legal moves of the piece on p that have type tag
LegalTo(p, tag) ==
    {mov.to : mov \in {m \in Range(legal_moves(Game, p)) : m.move_type.tag = tag}}

\* C13: in 5r2/8/8/8/8/8/8/R3K2R w KQ - the white king on e1 has exactly 4
\* legal moves: the queen-side castle is one of them, the king-side castle
\* through the attacked f1 is not.
C13_CastleThroughCheck ==
    Parsed("Castle") =>
        /\ Len(legal_moves(Game, E1)) = 4
        /\ LegalTo(E1, "Castle") = {new_unchecked(2, 0)}

\* C13: the Game parsed from that record, with a white king on e1 holding
\* both rights and a black rook on f8
C13_Witness ==
    /\ Parsed("Castle")
    /\ board[E1] = Piece("King", "White")
    /\ board[new_unchecked(5, 7)] = Piece("Rook", "Black")
    /\ white_castle_rights = "Both"
    /\ Len(legal_moves(Game, E1)) = 4

\* C14 as stated: on the board 5r2/8/8/8/8/8/8/R3K2R (black rook on f8),
\* white to move without castling rights, the white king has exactly 5 legal
\* moves.
C14_FiveMovesUnderRook ==
    Parsed("CastleNoRightsRook") => Len(legal_moves(Game, E1)) = 5

\* C14 amended: without castling rights the white king on e1 between its
\* rooks has exactly 5 legal moves, none a castle, on the board without the
\* black rook (8/8/8/8/8/8/8/R3K2R w - -), and exactly 3, none a castle and
\* none onto the f-file, with the black rook on f8.
C14_NoRightsKingMoves ==
    /\ Parsed("CastleNoRights") =>
          /\ Len(legal_moves(Game, E1)) = 5
          /\ LegalTo(E1, "Castle") = {}
    /\ Parsed("CastleNoRightsRook") =>
          /\ Len(legal_moves(Game, E1)) = 3
          /\ LegalTo(E1, "Castle") = {}
          /\ \A mov \in Range(legal_moves(Game, E1)) : file(mov.to) # 5

\* C14: the Game parsed from 5r2/8/8/8/8/8/8/R3K2R w - -, where both castle
\* moves are pseudo-legal and the king is left with 3 moves
C14_Witness ==
    /\ Parsed("CastleNoRightsRook")
    /\ white_castle_rights = "None"
    /\ board[new_unchecked(5, 7)] = Piece("Rook", "Black")
    /\ Cardinality({m \in Range(pseudo_legal_moves(Game, E1)) : m.move_type.tag = "Castle"}) = 2
    /\ Len(legal_moves(Game, E1)) = 3

\* the squares strictly between a and b, two squares of one rank
BetweenOnRank(a, b) ==
    {s \in Squares : /\ rank(s) = rank(a)
                     /\ \/ file(a) < file(s) /\ file(s) < file(b)
                        \/ file(b) < file(s) /\ file(s) < file(a)}

\* the square of the pawn the en-passant capture mov takes
CapturedPawnSquare(mov) == new_unchecked(file(mov.to), rank(mov.from))

\* the mover's king and an enemy rook stand on the rank of the capturing
\* pawn with the capturing pawn and the captured pawn, and no other piece,
\* between them
KingAndRookAround(mov) ==
    \E k \in Squares : \E r \in Squares :
        /\ board[k] = Piece("King", board[mov.from].color)
        /\ board[r] = Piece("Rook", opposite(board[mov.from].color))
        /\ rank(k) = rank(mov.from) /\ rank(r) = rank(mov.from)
        /\ {mov.from, CapturedPawnSquare(mov)} \subseteq BetweenOnRank(k, r)
        /\ board[CapturedPawnSquare(mov)] = Piece("Pawn", opposite(board[mov.from].color))
        /\ \A s \in BetweenOnRank(k, r) \ {mov.from, CapturedPawnSquare(mov)} :
              board[s] = NoPiece

\* the pseudo-legal en-passant captures on the board
EnPassantCaptures ==
    UNION {{m \in Range(pseudo_legal_moves(Game, p)) : m.move_type.tag = "EnPassantCapture"} :
              p \in {q \in Squares : board[q].kind = "Pawn"}}

\* C15: En-passant same-rank rule.  The same-rank scan rejects an en-passant
\* capture exactly when the mover's king and an enemy rook stand on the
\* capturing pawn's rank with the two pawns, and no other piece, between
\* them; in 8/8/3p4/K1pP3r/4Rp1k/8/4P1P1/8 b - c6 the capture on c6 is
\* illegal.
C15_EnPassantSameRank ==
    /\ \A mov \in EnPassantCaptures :
          EnPassantExposesKing(Game, mov, board[mov.from].color) <=> KingAndRookAround(mov)
    /\ Parsed("Pin") =>
          \A mov \in EnPassantCaptures : ~is_move_legal(Game, mov)

----------------------------------------------------------------------------
(* Properties of the fields make_move and unmake_move maintain *)

\* the wings the castling rights r hold
Held(r) ==
    {w \in {"KingSide", "QueenSide"} : IF w = "KingSide" THEN king_side(r) ELSE queen_side(r)}

\* the entry on top of the undo stack
TopEntry == move_stack[Len(move_stack)]

\* C16: castling rights never grow under make_move.  After a successful
\* make_move each colour holds a subset of the rights it held before; a step
\* that gives a right back is an unmake_move that restores the snapshot on
\* top of the undo stack.
C16_RightsNonIncreasing ==
    [][/\ (last_op' = "make_move" /\ last_result' = "Ok") =>
              /\ Held(white_castle_rights') \subseteq Held(white_castle_rights)
              /\ Held(black_castle_rights') \subseteq Held(black_castle_rights)
       /\ ~(/\ Held(white_castle_rights') \subseteq Held(white_castle_rights)
            /\ Held(black_castle_rights') \subseteq Held(black_castle_rights)) =>
              /\ last_op' = "unmake_move"
              /\ move_stack # <<>>
              /\ white_castle_rights' = TopEntry.white_castle
              /\ black_castle_rights' = TopEntry.black_castle]_vars

\* C16: a successful make_move has just revoked a right of the mover
C16_Witness ==
    /\ last_op = "make_move" /\ last_result = "Ok"
    /\ move_stack # <<>>
    /\ Held(castle_rights(Game, opposite(current_turn))) #
           Held(IF current_turn = "Black" THEN TopEntry.white_castle ELSE TopEntry.black_castle)
    /\ Held(white_castle_rights) \subseteq Held(TopEntry.white_castle)
    /\ Held(black_castle_rights) \subseteq Held(TopEntry.black_castle)

\* the en-passant target the move mov leaves behind: the square a double
\* pawn push skipped, none after any other move
TargetAfter(mov) ==
    IF mov.move_type.tag = "DoublePawnPush" THEN (mov.from + mov.to) \div 2 ELSE NoPos

\* mov is a pawn's move two ranks along its file
TwoRanks(b, mov) ==
    /\ b[mov.from].kind = "Pawn"
    /\ file(mov.to) = file(mov.from)
    /\ rank(mov.to) = rank(mov.from) + 2 * board_direction(b[mov.from].color)

\* a successful make_move left the en-passant target at target
StoresTarget(made, target) == made.result = "Ok" => made.game.en_passent_field = target

\* C17: En-passant target lifecycle.  After every successful make_move(m)
\* the target is Some(s) if and only if m is a double pawn push, and then s
\* is the square the pawn skipped; every other successful move leaves it
\* None, so a target lives for one move only.  The moves are those of the
\* generator; for a move a caller builds, the target is the square the move
\* carries if it is a double pawn push and None otherwise.
C17_EnPassantLifecycle ==
    /\ (last_op = "make_move" /\ last_result = "Ok") =>
          en_passent_field = TargetAfter(TopEntry.mov)
    /\ \A mov \in Range(all_legal_moves(Game, current_turn)) :
          /\ make_move(Game, mov).result = "Ok"
          /\ StoresTarget(make_move(Game, mov), TargetAfter(mov))
          /\ mov.move_type.tag = "DoublePawnPush" <=> TwoRanks(board, mov)
    /\ \A from \in pieces(bitboards, current_turn) :
          \A to \in {(from + 8) % 64, (from + 16) % 64, (from + 48) % 64} :
              \A mt \in RefusedMoveTypes((from + to) \div 2) :
                  StoresTarget(make_move(Game, Move(from, to, mt)),
                               IF mt.tag = "DoublePawnPush" THEN mt.pos ELSE NoPos)

\* C17: a move that is no double pawn push has just been made in a Game
\* whose en-passant target was set, and the target is gone
C17_Witness ==
    /\ last_op = "make_move" /\ last_result = "Ok"
    /\ TopEntry.en_passent # NoPos
    /\ TopEntry.mov.move_type.tag # "DoublePawnPush"
    /\ en_passent_field = NoPos

\* C18: Bitboard cache consistency.  In every state reached through
\* Game::new, successful make_move and unmake_move, the stored cache equals
\* the cache derived from scratch from the current Game (occupancy per colour
\* and per type, king squares, attack sets, pin masks, check-block masks),
\* and so does the cache every legal move leaves behind.
C18_CacheConsistent ==
    /\ bitboards = GameBitBoardsNew(Game)
    /\ \A mov \in Range(all_legal_moves(Game, current_turn)) :
          /\ make_move(Game, mov).game.bitboards
                 = GameBitBoardsNew(make_move(Game, mov).game)
          /\ unmake_move(make_move(Game, mov).game).bitboards
                 = GameBitBoardsNew(unmake_move(make_move(Game, mov).game))

\* moves were made and the last of them taken back: the cache was rebuilt by
\* Game::new, by make_move and by unmake_move, and moves are still on the stack
C18_Witness ==
    /\ last_op = "unmake_move"
    /\ last_result = "Ok"
    /\ move_stack # <<>>
    /\ bitboards = GameBitBoardsNew(Game)

----------------------------------------------------------------------------
(* Properties of the position records: fen.rs                               *)

\* g and h have the same occupancy, side to move, castling rights and
\* en-passant target
SamePosition(g, h) ==
    /\ h.board = g.board
    /\ h.current_turn = g.current_turn
    /\ h.white_castle_rights = g.white_castle_rights
    /\ h.black_castle_rights = g.black_castle_rights
    /\ h.en_passent_field = g.en_passent_field

\* the record from_game writes for g, cut into its parts
Record(g) == split_whitespace(from_game(g))

\* the record fen parses, and to a Game with the position of g
RoundTrip(g, fen) ==
    \A parsed \in {parse_game(fen)} :
        parsed.status = "Ok" /\ SamePosition(g, parsed.game)

\* the values of CastleRights
AllRights == {"None", "KingSide", "QueenSide", "Both"}

\* the Games Game::new builds on the current board for every side to move
\* and every pair of castling rights
Variants ==
    {[Game EXCEPT !.current_turn = turn, !.white_castle_rights = w,
                  !.black_castle_rights = b] :
        turn \in {"White", "Black"}, w \in AllRights, b \in AllRights}

\* C19: Position-string round trip.  For the standard starting position and
\* for any Game g with an empty move stack, parse_game(from_game(g)) succeeds
\* and yields a Game with the same occupancy, side to move, castling rights
\* and en-passant target as g (and, the stack being empty, g itself); so it
\* does for the board of g under every side to move and every pair of
\* castling rights.
C19_RoundTrip ==
    /\ \A fen \in {Record(Game)} :
          /\ RoundTrip(Game, fen)
          /\ move_stack = <<>> => parse_game(fen).game = Game
    /\ from_game(parse_game(FenStart).game)
          = Flatten(<<FenStart[1], <<" ">>, FenStart[2], <<" ">>, FenStart[3], <<" ">>,
                      FenStart[4], <<" ", "0", " ", "1">> >>)
    /\ move_stack = <<>> => \A g \in Variants : \A fen \in {Record(g)} : RoundTrip(g, fen)

\* a Game with an empty stack that is not the starting position: it has an
\* en-passant target and only one side may castle, or none
C19_Witness ==
    /\ move_stack = <<>>
    /\ en_passent_field # NoPos
    /\ white_castle_rights = "None"
    /\ \A fen \in {Record(Game)} :
          parse_game(fen).game.en_passent_field = en_passent_field

\* C20: Malformed position records are recovered at the boundary.  For every
\* record with an unparseable rank (too many rank separators and run lengths
\* that overflow the rank included), an unknown piece letter, an out-of-range
\* coordinate or an unrecognized side, rights or en-passant token, parse_game
\* returns a failure value: never a Game and never an abrupt termination.
C20_MalformedRejected ==
    (last_op = "parse_game" /\ fen_given \in MalformedRecords) => last_result = "Err"

----------------------------------------------------------------------------
(* Properties of Board, of the text of a Move and of PlayGame               *)

\* C21: Out-of-range coordinates are fatal.  Every access to the Board
\* (place_piece, piece_at, piece_at_mut, remove_piece) with an unchecked
\* Position whose file or rank is 8 or more terminates abruptly; it never
\* reads or writes the slot of another, in-range square.
C21_OutOfRangeFatal ==
    (/\ last_op \in {"place_piece", "piece_at", "piece_at_mut", "remove_piece"}
     /\ (last_arg[1] >= 8 \/ last_arg[2] >= 8))
        => last_result = "Panic"

\* text is two squares of the board and, after them, nothing or one
\* promotion letter in either case
WellFormedText(text) ==
    /\ Len(text) \in {4, 5}
    /\ \A i \in {1, 3} : text[i] \in Range(FileChars) /\ text[i + 1] \in Range(RankChars)
    /\ Len(text) = 5 => text[5] \in {"q", "r", "b", "n", "Q", "R", "B", "N"}

\* C22: Move-text round trip.  Parsing the text written for a quiet or
\* promotion-quiet move m yields m again; the text is the two coordinates
\* and, for a promotion, one lowercase letter of q r b n; a promotion letter
\* is read in either case; and a text that is not 4 or 5 characters long or
\* has an unknown promotion letter or square is rejected with a failure
\* value.
C22_MoveTextRoundTrip ==
    /\ (last_op = "to_string" /\ last_arg.move_type.tag \in {"Quiet", "PromotionQuite"})
          => /\ MoveFromStr(ret) = [status |-> "Ok", mov |-> last_arg]
             /\ Len(ret) = IF last_arg.move_type.tag = "Quiet" THEN 4 ELSE 5
             /\ Len(ret) = 5 => ret[5] \in {"q", "r", "b", "n"}
    /\ (last_op = "from_str" /\ WellFormedText(last_arg))
          => /\ last_result = "Ok"
             /\ Len(last_arg) = 5
                   => ret.move_type.promotion
                         = PromotionFromStr(<<last_arg[5]>>)
    /\ (last_op = "from_str" /\ ~WellFormedText(last_arg)) => last_result = "Err"

\* the colours self holds a player for
Attached(self) ==
    {color \in {"White", "Black"} :
        (IF color = "White" THEN self.white ELSE self.black) # "None"}

\* C23: a connect_player call answers Ready exactly when it attaches the
\* second of the two colours, and the PlayGame it hands back then holds the new
\* player under the colour of the call and the earlier player under the other;
\* the first attach answers Waiting and holds that one player only; a colour
\* that is already attached answers AlreadyConnected; a game starts only from
\* the PlayGame of a Ready answer and keeps both players under their colours.
C23_AttachProtocol ==
    [][/\ last_op' = "connect_player" =>
            \A player \in {last_arg'[1]} : \A color \in {last_arg'[2]} :
               /\ last_result' = "Ready" <=>
                     (color \notin Attached(play_game) /\ Attached(play_game) # {})
               /\ last_result' = "Ready" =>
                     /\ play_game'.state = "AllConnected"
                     /\ PlayerOf(play_game', color) = player
                     /\ \A other \in {"White", "Black"} \ {color} :
                           PlayerOf(play_game', other) = PlayerOf(play_game, other)
               /\ Attached(play_game) = {} =>
                     /\ last_result' = "Waiting"
                     /\ play_game'.state = "WaitingForPlayers"
                     /\ Attached(play_game') = {color}
                     /\ PlayerOf(play_game', color) = player
               /\ color \in Attached(play_game) => last_result' = "AlreadyConnected"
               /\ last_result' = "AlreadyConnected" => play_game'.state = "None"
       /\ play_game'.state = "Playing" =>
            /\ play_game.state \in {"AllConnected", "Playing"}
            /\ play_game'.white = play_game.white
            /\ play_game'.black = play_game.black
            /\ Attached(play_game) = {"White", "Black"}
       /\ (play_game'.state = "AllConnected" /\ play_game.state # "AllConnected") =>
            (last_op' = "connect_player" /\ last_result' = "Ready")
      ]_vars

\* a game was started with two different players under the two colours
C23_Witness ==
    /\ last_op = "start"
    /\ play_game.state = "Playing"
    /\ play_game.white = "CliPlayer"
    /\ play_game.black = "BotBasic"
    /\ origin = "Promotion"

\* the remaining depth of the search call that is about to start, 0 when the
\* call is one of alpha_beta_captures
EnteredDepth ==
    IF frames = <<>> THEN MAX_DEPTH
    ELSE IF Top.fn = "search" THEN Top.depth - 1
    ELSE 0

\* C24: a search call with remaining depth above zero whose side to move has
\* no legal move returns -1000 when that side is in check and 0 otherwise, and
\* returns with the Game as it found it, no move made.
C24_TerminalNodes ==
    [][(/\ pc = "enter"
        /\ EnteredDepth > 0
        /\ all_legal_moves(Game, current_turn) = <<>>)
           => /\ ret' = IF is_in_check(Game) THEN -1000 ELSE 0
              /\ pc' \in {"return", "searched"}
              /\ UNCHANGED <<gameVars, frames, search>>]_vars

\* a search call above depth zero has just returned -1000 from a position in
\* which the side to move is in check and has no legal move
C24_Witness ==
    /\ pc = "return"
    /\ Top.fn = "search"
    /\ Top.depth > 1
    /\ all_legal_moves(Game, current_turn) = <<>>
    /\ is_in_check(Game)
    /\ ret = -1000

\* a search call above depth zero has just returned 0 from a position in which
\* the side to move is not in check and has no legal move
C24_WitnessStalemate ==
    /\ pc = "return"
    /\ Top.fn = "search"
    /\ Top.depth > 1
    /\ all_legal_moves(Game, current_turn) = <<>>
    /\ ~is_in_check(Game)
    /\ ret = 0

\* the recursive call of the loop on top of the stack came back with a negated
\* score of at least beta
CutOff == pc = "return" /\ -ret >= Top.beta

\* the call on top of the stack returns at this step, whatever moves are left
ReturnsNow ==
    /\ frames' = SubSeq(frames, 1, Len(frames) - 1)
    /\ pc' \in {"return", "searched"}
    /\ search'.looked_at_positions <= search.looked_at_positions + 1

\* C25 as the spec states it: on a beta cutoff the call returns immediately
\* and the value it returns is the negated score of the child, not beta.
C25_FailSoft ==
    [][CutOff => (ReturnsNow /\ ret' = -ret)]_vars

\* C25: on a beta cutoff, in search and in alpha_beta_captures, the call
\* returns immediately without taking another move of its list, and the value
\* it returns is beta itself, whatever the negated score of the child was.
C25_FailHard ==
    [][CutOff => (ReturnsNow /\ ret' = Top.beta)]_vars

\* a call has just been cut off: it returned the beta it was called with, the
\* negated alpha of the loop that called it, and the cutoff was counted
C25_Witness ==
    /\ pc = "return"
    /\ search.skipped_positions > 0
    /\ ret = -Top.alpha
    /\ Top.fn = "search"

\* the entry best_move returns: the first of best_moves
BestEntry == search.best_moves[1]

\* the legal moves of the side to move in the position best_move was given
RootMoves == all_legal_moves(root, root.current_turn)

\* best_moves is filled from the front and its scores never rise
Ordered(bm) ==
    \A k \in 1 .. MAX_MOVES - 1 :
        bm[k + 1].some => (bm[k].some /\ bm[k].score >= bm[k + 1].score)

\* C26: best_move returns a move exactly when the side to move has a legal
\* move; the move is a legal move of the root position; every root move's
\* score, when it comes back, is at most the score recorded first, and only a
\* move that scores above the first entry replaces it, so the first entry
\* holds the maximum, which is also what the root call returns; the recorded
\* entries are in non-increasing order of score.
C26_RootBestMove ==
    [][/\ (pc = "return" /\ Len(frames) = 1) =>
            /\ BestEntry'.some
            /\ BestEntry'.score >= -ret
            /\ BestEntry.some => BestEntry'.score >= BestEntry.score
            /\ BestEntry' = IF BestEntry.some /\ -ret <= BestEntry.score
                            THEN BestEntry
                            ELSE [some |-> TRUE, mov |-> Top.moves[Top.i], score |-> -ret]
       /\ Ordered(search'.best_moves)
       /\ pc' = "searched" =>
            /\ BestEntry'.some <=> (RootMoves # <<>>)
            /\ BestEntry'.some =>
                  /\ \E i \in 1 .. Len(RootMoves) : RootMoves[i] = BestEntry'.mov
                  /\ BestEntry'.score = ret'
      ]_vars

\* best_move has returned a move that is not the one the root call tried
\* first, with the score the root call returned
C26_Witness ==
    /\ pc = "searched"
    /\ BestEntry.some
    /\ BestEntry.mov # SortedLegalMoves(root, search.ep_counts)[1]
    /\ BestEntry.score = ret

\* the root call has recorded a move that scored above the one recorded before
C26_WitnessImproved ==
    /\ pc = "loop"
    /\ Len(frames) = 1
    /\ search.best_moves[2].some
    /\ search.best_moves[2].score < BestEntry.score

\* best_move has returned nothing from a position without a legal move
C26_WitnessNone ==
    /\ pc = "searched"
    /\ ~BestEntry.some
    /\ all_legal_moves(Game, current_turn) = <<>>

\* the Games after 0, 1, .. j of the moves of the undo stack have been made
\* one after the other on the Game the record fen_given parses to
RECURSIVE MadeGames(_)
MadeGames(j) ==
    IF j = 0 THEN <<parse_game(fen_given).game>>
    ELSE LET before == MadeGames(j - 1)
         IN  Append(before, make_move(before[j], move_stack[j].mov).game)

\* the Games after 0, 1, .. k calls of unmake_move on g
RECURSIVE UnmadeGames(_, _)
UnmadeGames(g, k) ==
    IF k = 0 THEN <<g>>
    ELSE LET before == UnmadeGames(g, k - 1)
         IN  Append(before, unmake_move(before[k]))

\* C27: Nested undo.  When the Game is the one n successful make_move calls
\* built from the parsed position, k <= n calls of unmake_move yield the Game
\* that existed after the first n - k make_move calls, in board, side to move,
\* castling rights, en-passant target, move stack and cache; k = n yields the
\* parsed position.
C27_NestedUndo ==
    \A n \in {Len(move_stack)} :
        \A made \in {MadeGames(n)} :
            made[n + 1] = Game =>
                \A unmade \in {UnmadeGames(Game, n)} :
                    \A k \in 0 .. n : unmade[k + 1] = made[n - k + 1]

\* the Game of the next state
GameNext ==
    [current_turn |-> current_turn', board |-> board', move_stack |-> move_stack',
     bitboards |-> bitboards', white_castle_rights |-> white_castle_rights',
     black_castle_rights |-> black_castle_rights', en_passent_field |-> en_passent_field']

\* the rights new of the mover follow from its rights old by the rule for a
\* move of piece from the square from
Revoked(old, new, piece, from, mover) ==
    IF piece.kind = "King" THEN new = "None"
    ELSE IF piece.kind = "Rook" /\ from = new_unchecked(0, root_rank(mover))
    THEN ~queen_side(new) /\ (king_side(new) <=> king_side(old))
    ELSE IF piece.kind = "Rook" /\ from = new_unchecked(7, root_rank(mover))
    THEN ~king_side(new) /\ (queen_side(new) <=> queen_side(old))
    ELSE new = old

\* C28: Rights revocation.  A successful make_move by a king leaves the mover
\* without rights; by a rook leaving the a-file corner of the mover's home rank
\* it removes only the mover's queen-side right, by a rook leaving the h-file
\* corner only the king-side right; every other move leaves the mover's rights
\* as they were; the opponent's rights never change; and unmake_move after the
\* move gives back the rights both sides held before it.
C28_RightsRevocation ==
    [][(last_op' = "make_move" /\ last_result' = "Ok") =>
          /\ Revoked(castle_rights(Game, current_turn),
                     castle_rights(GameNext, current_turn),
                     board[move_stack'[Len(move_stack')].mov.from],
                     move_stack'[Len(move_stack')].mov.from, current_turn)
          /\ castle_rights(GameNext, opposite(current_turn))
                = castle_rights(Game, opposite(current_turn))
          /\ unmake_move(GameNext).white_castle_rights = white_castle_rights
          /\ unmake_move(GameNext).black_castle_rights = black_castle_rights]_vars

\* a white rook has left a1 and white, who held both rights, is left with the
\* king-side right
C28_Witness ==
    /\ last_op = "make_move" /\ last_result = "Ok"
    /\ move_stack # <<>>
    /\ TopEntry.mov.from = new_unchecked(0, 0)
    /\ board[TopEntry.mov.to] = Piece("Rook", "White")
    /\ TopEntry.white_castle = "Both"
    /\ white_castle_rights = "KingSide"

\* a king that held rights has moved and holds none
C28_WitnessKing ==
    /\ last_op = "make_move" /\ last_result = "Ok"
    /\ move_stack # <<>>
    /\ board[TopEntry.mov.to].kind = "King"
    /\ castle_rights([white_castle_rights |-> TopEntry.white_castle,
                      black_castle_rights |-> TopEntry.black_castle],
                     opposite(current_turn)) # "None"
    /\ castle_rights(Game, opposite(current_turn)) = "None"

\* a rook has left the h-file corner and its side, which held both rights, is
\* left with the queen-side right
C28_WitnessKingSide ==
    /\ last_op = "make_move" /\ last_result = "Ok"
    /\ move_stack # <<>>
    /\ file(TopEntry.mov.from) = 7
    /\ board[TopEntry.mov.to].kind = "Rook"
    /\ castle_rights(Game, opposite(current_turn)) = "QueenSide"

\* the squares the move mov of the side mover names: its origin, its
\* destination, the two squares of the rook of a castle, the square behind the
\* destination of an en-passant capture
NamedSquares(mov, mover) ==
    {mov.from, mov.to}
    \cup (IF mov.move_type.tag = "Castle"
          THEN IF file(mov.to) = 6
               THEN {new_unchecked(7, root_rank(mover)), new_unchecked(5, root_rank(mover))}
               ELSE {new_unchecked(0, root_rank(mover)), new_unchecked(3, root_rank(mover))}
          ELSE {})
    \cup (IF mov.move_type.tag = "EnPassantCapture"
          THEN {offset(mov.to, 0, -board_direction(mover))}
          ELSE {})

\* the board after follows from the board before by the tag of mov
TagEffect(before, after, mov, mover) ==
    /\ after[mov.from] = NoPiece
    /\ \A p \in Squares \ NamedSquares(mov, mover) : after[p] = before[p]
    /\ CASE mov.move_type.tag = "Castle" ->
              /\ after[mov.to] = Piece("King", mover)
              /\ file(mov.to) = 6 =>
                    /\ after[new_unchecked(5, root_rank(mover))] = Piece("Rook", mover)
                    /\ after[new_unchecked(7, root_rank(mover))] = NoPiece
              /\ file(mov.to) = 2 =>
                    /\ after[new_unchecked(3, root_rank(mover))] = Piece("Rook", mover)
                    /\ after[new_unchecked(0, root_rank(mover))] = NoPiece
         [] mov.move_type.tag = "EnPassantCapture" ->
              /\ after[mov.to] = Piece("Pawn", mover)
              /\ after[offset(mov.to, 0, -board_direction(mover))] = NoPiece
         [] mov.move_type.tag \in {"PromotionQuite", "PromotionCapture"} ->
              after[mov.to] = Piece(mov.move_type.promotion, mover)
         [] OTHER ->
              after[mov.to] = before[mov.from] /\ before[mov.from].color = mover

\* C29: the board after a successful make_move follows from the board before
\* by the tag of the move: a castle puts the king on its destination and the
\* rook of that wing from the corner on the square the king crossed; an
\* en-passant capture moves the pawn and empties the square one rank behind
\* the destination; a promotion leaves the promoted piece of the mover on the
\* destination; a capture and every other move leave the mover's piece on the
\* destination; the origin is empty and no other square changes.
C29_BoardEffect ==
    [][(last_op' = "make_move" /\ last_result' = "Ok") =>
          TagEffect(board, board', move_stack'[Len(move_stack')].mov, current_turn)]_vars

\* a castle to the g-file has been made
C29_Witness ==
    /\ last_op = "make_move" /\ last_result = "Ok"
    /\ move_stack # <<>>
    /\ TopEntry.mov.move_type.tag = "Castle"
    /\ file(TopEntry.mov.to) = 6
    /\ board[TopEntry.mov.to].kind = "King"
    /\ board[TopEntry.mov.to - 1].kind = "Rook"

\* a castle to the c-file, an en-passant capture, a promotion with a capture
\* and a plain capture have been made
C29_WitnessQueenSide ==
    /\ last_op = "make_move" /\ last_result = "Ok"
    /\ move_stack # <<>>
    /\ TopEntry.mov.move_type.tag = "Castle"
    /\ file(TopEntry.mov.to) = 2

C29_WitnessEnPassant ==
    /\ last_op = "make_move" /\ last_result = "Ok"
    /\ move_stack # <<>>
    /\ TopEntry.mov.move_type.tag = "EnPassantCapture"

C29_WitnessPromotion ==
    /\ last_op = "make_move" /\ last_result = "Ok"
    /\ move_stack # <<>>
    /\ TopEntry.mov.move_type.tag = "PromotionCapture"
    /\ board[TopEntry.mov.to].kind = "Knight"

C29_WitnessCapture ==
    /\ last_op = "make_move" /\ last_result = "Ok"
    /\ move_stack # <<>>
    /\ TopEntry.mov.move_type.tag = "Capture"

\* the entries of the move list moves that end on the square to
LandingOn(moves, to) == {i \in 1 .. Len(moves) : moves[i].to = to}

\* the moves of the list that bring the pawn on position to the back rank of
\* the other side are promotions, four for each square they end on, one for
\* each of queen, rook, bishop and knight: promotion-quiet straight ahead,
\* promotion-capture with the type of the piece taken on a diagonal
OnlyPromotions(moves, position, color) ==
    \A to \in {moves[i].to : i \in 1 .. Len(moves)} :
        rank(to) = root_rank(opposite(color)) =>
            /\ Cardinality(LandingOn(moves, to)) = 4
            /\ {moves[i].move_type.promotion : i \in LandingOn(moves, to)}
                  = {"Queen", "Rook", "Bishop", "Knight"}
            /\ \A i \in LandingOn(moves, to) :
                  moves[i].move_type =
                      IF file(to) = file(position)
                      THEN PromotionQuite(moves[i].move_type.promotion)
                      ELSE PromotionCapture(moves[i].move_type.promotion, board[to].kind)

DoublePushes(moves) == {i \in 1 .. Len(moves) : moves[i].move_type.tag = "DoublePawnPush"}

\* the pawn on position, of the colour color, has its double push in moves
\* exactly when it stands on the home rank of its colour with the squares one
\* and two ahead of it empty; the push ends on two and records one
DoublePushRule(moves, position, color, one, two) ==
    /\ (DoublePushes(moves) # {}) <=>
          /\ rank(position) = pawn_rank(color)
          /\ one # NoPos /\ board[one] = NoPiece
          /\ two # NoPos /\ board[two] = NoPiece
    /\ Cardinality(DoublePushes(moves)) <= 1
    /\ \A i \in DoublePushes(moves) :
          /\ moves[i].from = position
          /\ moves[i].to = two
          /\ moves[i].move_type.pos = one
          /\ color = current_turn =>
                /\ make_move(Game, moves[i]).result = "Ok"
                /\ StoresTarget(make_move(Game, moves[i]), one)

\* C31: Double pawn push generation.  A pawn has a double push among its
\* pseudo-legal moves if and only if it stands on the home rank of its colour
\* and the square ahead and the square two ahead are both empty; the move
\* records the square it skips, and after make_move of it that square is the
\* en-passant target.
C31_DoublePushGeneration ==
    \A position \in Squares :
        board[position].kind = "Pawn" =>
            DoublePushRule(pseudo_legal_moves(Game, position), position,
                           board[position].color,
                           offset(position, 0, board_direction(board[position].color)),
                           offset(position, 0, 2 * board_direction(board[position].color)))

\* a double push from the home rank has been made and the square it skipped is
\* the en-passant target, while another pawn of the position has left its
\* home rank and has no double push
C31_Witness ==
    /\ last_op = "make_move" /\ last_result = "Ok"
    /\ move_stack # <<>>
    /\ TopEntry.mov.move_type.tag = "DoublePawnPush"
    /\ en_passent_field = (TopEntry.mov.from + TopEntry.mov.to) \div 2
    /\ \E p \in Squares :
          /\ board[p].kind = "Pawn" /\ rank(p) # pawn_rank(board[p].color)
          /\ p # TopEntry.mov.to
          /\ DoublePushes(pseudo_legal_moves(Game, p)) = {}

\* a pawn stands on its home rank with the square ahead empty and the square
\* two ahead taken, and has a single push but no double push
C31_WitnessBlocked ==
    \E p \in Squares :
        /\ board[p].kind = "Pawn" /\ rank(p) = pawn_rank(board[p].color)
        /\ board[offset(p, 0, board_direction(board[p].color))] = NoPiece
        /\ board[offset(p, 0, 2 * board_direction(board[p].color))] # NoPiece
        /\ Len(pseudo_legal_moves(Game, p)) >= 1
        /\ DoublePushes(pseudo_legal_moves(Game, p)) = {}

\* the plies alpha_beta_captures may descend below the leaves of search
CAPTURES_DEPTH == 8

\* the frames of the call stack that are loops of fn
FramesOf(fn) == {k \in 1 .. Len(frames) : frames[k].fn = fn}

\* the call stack stays within the ply budget: at most MAX_DEPTH loops of
\* search, each one ply below the one before, then at most CAPTURES_DEPTH
\* loops of alpha_beta_captures, and one move on the Game for every loop that
\* is waiting for its recursive call
WithinBudget ==
    /\ Cardinality(FramesOf("search")) <= MAX_DEPTH
    /\ Cardinality(FramesOf("captures")) <= CAPTURES_DEPTH
    /\ \A k \in FramesOf("search") : frames[k].depth = MAX_DEPTH - k + 1
    /\ \A k \in FramesOf("captures") :
          /\ FramesOf("search") = 1 .. MAX_DEPTH
          /\ frames[k].depth = CAPTURES_DEPTH - (k - MAX_DEPTH) + 1
          /\ frames[k].depth >= 1
    /\ pc \in {"enter", "loop", "return"} =>
          Len(move_stack) - Len(root.move_stack) <= MAX_DEPTH + CAPTURES_DEPTH
    /\ pc \in {"loop", "return"} => frames # <<>>
    /\ Running \/ pc = "searched"

\* a move made by a loop of alpha_beta_captures takes a piece
OnlyCaptures ==
    (pc = "loop" /\ Top.fn = "captures" /\ Len(move_stack') > Len(move_stack)) =>
        /\ move_stack'[Len(move_stack')].mov.move_type.tag
              \in {"Capture", "PromotionCapture", "EnPassantCapture"}
        /\ Cardinality({p \in Squares : board'[p] # NoPiece})
              < Cardinality({p \in Squares : board[p] # NoPiece})

KingsOf(color) == {p \in Squares : board[p] = Piece("King", color)}

\* C33: Exactly one king per side.  In every state reached from the standard
\* starting position by moves of all_legal_moves and their undos, the board
\* holds exactly one white king and one black king, and no move of
\* all_legal_moves of the side to move is a capture or promotion-capture whose
\* captured piece type is King.
C33_OneKingPerSide ==
    (origin = "Start" /\ last_result = "Ok") =>
        /\ Cardinality(KingsOf("White")) = 1
        /\ Cardinality(KingsOf("Black")) = 1
        /\ \A mov \in Range(all_legal_moves(Game, current_turn)) :
              mov.move_type.captured # "King"

----------------------------------------------------------------------------
(* C34: completeness of legal_moves *)

\* after mov the king of the mover is not attacked; a castle also needs the
\* right and the king's start, transit and destination squares unattacked now
KingSafeAfter(g, mov, after) ==
    /\ after.result = "Ok"
    /\ king(after.game.bitboards, g.current_turn)
           \notin attacks(after.game.bitboards, opposite(g.current_turn))
    /\ mov.move_type.tag = "Castle" =>
          /\ CastleAllowed_rights_only(g, mov, g.current_turn, {})
          /\ {mov.from, (mov.from + mov.to) \div 2, mov.to}
                 \cap attacks(g.bitboards, opposite(g.current_turn)) = {}

\* the pseudo-legal moves from position that keep the king safe and that
\* legal_moves leaves out
MissingMoves(g, position) ==
    {mov \in Range(pseudo_legal_moves(g, position)) :
        /\ KingSafeAfter(g, mov, make_move(g, mov))
        /\ mov \notin Range(legal_moves(g, position))}

\* C34: Legality completeness.  In every state reached from the standard
\* starting position by legal moves, every pseudo-legal move of the side to
\* move after which the mover's king is not attacked (for a castle: with the
\* right and no attacked start, transit or destination square) is returned by
\* legal_moves; in particular an en-passant capture that removes a checking
\* pawn is reported legal.
C34_LegalityComplete ==
    origin = "Start" =>
        \A position \in pieces(bitboards, current_turn) :
            MissingMoves(Game, position) = {}

\* after 5... c5+ the en-passant capture d5xc6 is pseudo-legal, takes the
\* checking pawn and leaves the king safe, and legal_moves does not return it
C34_Rejected ==
    /\ origin = "Start" /\ Len(move_stack) = Len(LineEnPassantCheck)
    /\ is_in_check(Game)
    /\ \E mov \in MissingMoves(Game, 35) :
          /\ mov.move_type.tag = "EnPassantCapture"
          /\ mov.to = en_passent_field

----------------------------------------------------------------------------
(* C35: the two check detectors *)

\* the side to move has an entry in its list of check-block masks
HasCheckEntry == blockable_checks(bitboards, current_turn) # <<>>

\* C35: The two check detectors agree.  In every state reached from the
\* standard starting position by legal moves, is_in_check() (the king square of
\* the side to move lies in the opponent's attack set) is true if and only if
\* the side to move has at least one check-block entry in the bitboard cache.
C35_DetectorsAgree ==
    origin = "Start" => (is_in_check(Game) <=> HasCheckEntry)

\* a move has just given check: both detectors report it, by a knight or pawn
\* entry of one square
C35_Witness ==
    /\ origin = "Start" /\ last_op = "make_move" /\ last_result = "Ok"
    /\ is_in_check(Game) /\ HasCheckEntry
    /\ \E i \in 1 .. Len(blockable_checks(bitboards, current_turn)) :
          /\ Cardinality(blockable_checks(bitboards, current_turn)[i]) = 1
          /\ board[LowestOf(blockable_checks(bitboards, current_turn)[i])].kind = "Pawn"

\* a move has just given check along a rank, file or diagonal
C35_WitnessRay ==
    /\ origin = "Start" /\ last_op = "make_move" /\ last_result = "Ok"
    /\ is_in_check(Game) /\ HasCheckEntry
    /\ \E i \in 1 .. Len(blockable_checks(bitboards, current_turn)) :
          \E p \in blockable_checks(bitboards, current_turn)[i] :
              board[p].kind \in {"Rook", "Bishop", "Queen"}

----------------------------------------------------------------------------
(* C40: the unreachable!() branch of the ray scan *)

\* the squares of the ray from position in direction, nearest first
RECURSIVE RaySquares(_, _)
RaySquares(position, direction) ==
    LET next == offset(position, direction[1], direction[2])
    IN  IF next = NoPos THEN <<>> ELSE <<next>> \o RaySquares(next, direction)

\* the occupied squares of that ray, nearest first
RayPieces(position, direction) ==
    SelectSeq(RaySquares(position, direction), LAMBDA p : board[p] # NoPiece)

\* C40: In generate_king_pins_and_checks the branch marked unreachable!() is
\* never executed: no ray scan from the king of either colour meets an enemy
\* slider of the ray's kind with two or more friendly pieces counted.
C40_UnreachableBranch ==
    \A color \in {"White", "Black"} :
        \A i \in 1 .. 8 :
            RayResults(Game, color, king(bitboards, color))[i][1] # "unreachable"

\* on a ray from a king the first two pieces are its own and the third is an
\* enemy slider that moves along the ray: the scan stops at the second piece
C40_Witness ==
    \E color \in {"White", "Black"} :
        \E i \in 1 .. 8 :
            LET ps == RayPieces(king(bitboards, color), Directions[i])
            IN  /\ Len(ps) >= 3
                /\ board[ps[1]].color = color /\ board[ps[2]].color = color
                /\ board[ps[3]].color = opposite(color)
                /\ board[ps[3]].kind \in Directions[i][3]
                /\ RayResults(Game, color, king(bitboards, color))[i][1] = "none"

----------------------------------------------------------------------------
(* C36, C37: wait_for_move *)

\* what a wait_for_move call may do, given the legal moves of the side to
\* move before it, the result, the colours asked, the answer and whether the
\* Game is as before
TurnRule(moves, turn, result, consulted, answer, unchanged, after) ==
    /\ moves = <<>> =>
          /\ result \in {"Checkmate", "Stalemate"}
          /\ consulted = <<>>
          /\ unchanged
    /\ moves # <<>> =>
          /\ result \in {"InProgress", "PlayerNotMakingMoves"}
          /\ Len(consulted) \in 1 .. TRY_COUNTER
          /\ \A i \in 1 .. Len(consulted) : consulted[i] = turn
          /\ result = "InProgress" =>
                /\ answer \in Range(moves)
                /\ after.current_turn = opposite(turn)
                /\ after.move_stack # <<>>
                /\ after.move_stack[Len(after.move_stack)].mov = answer
          /\ result = "PlayerNotMakingMoves" =>
                /\ Len(consulted) = TRY_COUNTER
                /\ answer = "None"
                /\ unchanged

\* C36: Turn protocol of wait_for_move.  If the side to move has no legal
\* moves it returns a terminal result without consulting the player and
\* without changing the Game; otherwise it consults the current side's player
\* at most 10 times, applies exactly one move (the first one the player
\* returns) and returns InProgress with the side to move flipped, or returns
\* PlayerNotMakingMoves after 10 refusals with the Game unchanged; it never
\* consults the player of the side not to move.
C36_TurnProtocol ==
    [][last_op' = "wait_for_move" =>
          /\ TurnRule(all_legal_moves(Game, current_turn), current_turn, last_result',
                      last_arg'[1], last_arg'[2], GameNext = Game, GameNext)
          /\ last_result' = "InProgress" =>
                GameNext = make_move(Game, last_arg'[2]).game]_vars

\* Black's player at the terminal has refused nine times and then named a
\* move, which was made: it is White's turn
C36_Witness ==
    /\ last_op = "wait_for_move" /\ last_result = "InProgress"
    /\ current_turn = "White"
    /\ last_arg[1] = [i \in 1 .. TRY_COUNTER |-> "Black"]
    /\ PlayerOf(play_game, "Black") = "CliPlayer"

\* the player has refused ten times and the call gave up
C36_WitnessGaveUp ==
    /\ last_op = "wait_for_move" /\ last_result = "PlayerNotMakingMoves"
    /\ Len(last_arg[1]) = TRY_COUNTER

\* the side to move had no legal move and no player was asked
C36_WitnessTerminal ==
    /\ last_op = "wait_for_move" /\ last_result = "Checkmate"
    /\ last_arg[1] = <<>>
    /\ move_stack # <<>>

\* C37: wait_for_move distinguishes the two terminal outcomes: it returns
\* Checkmate only when the side to move has no legal moves and is in check,
\* and returns Stalemate when the side to move has no legal moves and is not
\* in check.
C37_TerminalOutcomes ==
    [][last_op' = "wait_for_move" =>
          /\ last_result' = "Checkmate" =>
                all_legal_moves(Game, current_turn) = <<>> /\ is_in_check(Game)
          /\ all_legal_moves(Game, current_turn) = <<>> /\ ~is_in_check(Game) =>
                last_result' = "Stalemate"]_vars

\* wait_for_move has answered Checkmate for a side that has no legal move and
\* is not in check
C37_CheckmateWithoutCheck ==
    /\ last_op = "wait_for_move" /\ last_result = "Checkmate"
    /\ all_legal_moves(Game, current_turn) = <<>>
    /\ ~is_in_check(Game)

----------------------------------------------------------------------------
(* C39: the relay of remote game states *)

\* the side that made the last of n moves of a game from the starting position
LastMover(n) == IF n % 2 = 1 THEN "White" ELSE "Black"

\* the moves of the reported list text, in order
ReportedOf(text) == ServerMoves(split_whitespace(text))

\* the relay's channel after a list of moves reached a relay with the
\* channel tx: the last move is added when the side that made it is not the bot
Forwarded(tx, moves, bot_color) ==
    IF moves # <<>> /\ LastMover(Len(moves)) # bot_color
    THEN Append(tx, moves[Len(moves)].mov)
    ELSE tx

\* the moves of the list last reported, in order
Reported == ReportedOf(last_arg)

\* C39: Relay of remote game states never fails and forwards only opponent
\* moves: for every reported move list (including the empty list sent at game
\* start) and either bot colour, receive_lichess_move either forwards the last
\* move of the list to the local opponent player's channel, exactly when that
\* move was made by the side that is not the bot, or does nothing; the bot's
\* own moves are never forwarded.
C39_Relay ==
    [][last_op' = "receive_lichess_move" =>
          /\ last_result' = "Ok"
          /\ running_game'.bot_color = running_game.bot_color
          /\ running_game'.tx = Forwarded(running_game.tx, ReportedOf(last_arg'),
                                          running_game.bot_color)]_vars

\* the empty move list of a game's start has reached the relay of a bot that
\* plays White, and the relay has panicked
C39_EmptyListPanics ==
    /\ last_op = "receive_lichess_move"
    /\ last_arg = <<>>
    /\ running_game.bot_color = "White"
    /\ last_result = "Panic" /\ pc = "panicked"

\* the relay has forwarded the opponent's move of a list of two moves
C39_Forwarded ==
    /\ last_op = "receive_lichess_move" /\ last_result = "Ok"
    /\ Len(Reported) = 2
    /\ running_game.bot_color = "White"
    /\ running_game.tx # <<>>
    /\ running_game.tx[Len(running_game.tx)] = Reported[2].mov

----------------------------------------------------------------------------
(* C38: the checkmate score and the material evaluation *)

\* the side to move of g is checkmated
Checkmated(g) == all_legal_moves(g, g.current_turn) = <<>> /\ is_in_check(g)

\* C38: The checkmate score is a lower bound: the value -1000 returned for a
\* checkmated node is strictly less than the material evaluation of every
\* position in which the side to move is not checkmated (with piece values
\* pawn 100, knight 330, bishop 320, rook 500, queen 900).
C38_CheckmateLowerBound ==
    ~Checkmated(Game) => CHECKMATE_SCORE < eval(Game)

\* the side to move is not checkmated and its material evaluation is below
\* the checkmate score
C38_WorseThanMate ==
    /\ ~Checkmated(Game)
    /\ all_legal_moves(Game, current_turn) # <<>>
    /\ eval(Game) < CHECKMATE_SCORE

====
